---------------------------- MODULE Spec2Model ----------------------------
(***************************************************************************)
(* Task recorder backend: the deterministic action processor               *)
(* (services/processor.ts), the three-stage documentation pipeline         *)
(* (services/generator.ts with the prompt parsers), the model-fallback     *)
(* completion client (services/llm.ts), and the stop and clarification     *)
(* handlers of a stored task (routes/tasks.ts, routes/webhook.ts).         *)
(*                                                                         *)
(* Indices into action lists are 0-based, as in the source; At(s, i) reads *)
(* the element the source writes s[i].                                     *)
(***************************************************************************)
EXTENDS Integers, Sequences, FiniteSets, TLC

VARIABLES
    actions,      \* the action list handed to the processor / task.actions
    preChunks,    \* [called, chunks]: the value preChunkActions returned
    env,          \* process.env, as far as llm.ts reads it
    openaiClient,     \* the lazily built OpenAI client exists
    anthropicClient,  \* the lazily built Anthropic client exists
    pc,           \* generateDocumentation: "idle", "awaiting" (a request to
                  \* the provider is in flight), "done" or "failed"
    stage,        \* the stage whose call of complete is running
    calls,        \* the calls of complete so far: [stage, outcome]
    modelIdx,     \* complete: position in config.models of the model in flight
    errors,       \* complete: the local list errors
    tried,        \* the requests of the running call of complete so far, in
                  \* order: [model, reply]
    chunkerResponse,    \* generateDocumentation: the local chunkerResponse
    analyzerResponse,   \* generateDocumentation: the local analyzerResponse
    generatorResponse,  \* generateDocumentation: the local generatorResponse
    chunks,       \* generateDocumentation: the local chunks
    knowHow,      \* generateDocumentation: the local knowHow
    result,       \* the GenerationResult the caller received
    thrown,       \* the error the caller received
    taskMetrics,  \* [called, metrics]: the value calculateMetrics returned
    sectionTexts, \* the three section texts a markdown document is built of
    sections,     \* [called, value]: the value parseGeneratorResponse returned
    task,         \* the stored TaskSession, as far as the routes use it
    state,        \* the background worker's RecordingState: isRecording,
                  \* actions (the queue) and actionCount
    batchInterval,  \* the 5-second flush interval is set
    stopPc,       \* the background worker's stopRecording: "idle",
                  \* "notifying", "flushing", "flushed", "stopping", "done"
    flushes,      \* the calls of flushActions that took a batch, in order
    storeKind,    \* the TaskStore in use: "memory" or "kv"
    stored,       \* the TaskSession the store holds under the task's id
    handlers,     \* the route handlers of the requests: [pc, read, task,
                  \* written, response]
    statusLog,    \* the statuses the stored task went through, in order
    generations   \* the calls of generateDocumentation by the stop route

vars == <<actions, preChunks, env, openaiClient, anthropicClient, pc, stage, calls,
          modelIdx, errors, tried, chunkerResponse, analyzerResponse,
          generatorResponse, chunks, knowHow, result, thrown, taskMetrics,
          sectionTexts, sections, task, state, batchInterval, stopPc, flushes,
          storeKind, stored, handlers, statusLog, generations>>

\* the variables of the recording extension
captureVars == <<state, batchInterval, stopPc, flushes>>

\* the variables of the task store and the handlers of its routes
storeVars == <<storeKind, stored, handlers, statusLog, generations>>

\* the variables neither the pre-chunker nor the pipeline touches
sideVars == <<taskMetrics, sectionTexts, sections, task, captureVars, storeVars>>

pipelineVars == <<env, openaiClient, anthropicClient, pc, stage, calls,
                  modelIdx, errors, tried, chunkerResponse, analyzerResponse,
                  generatorResponse, chunks, knowHow, result, thrown>>

---------------------------------------------------------------------------
(* Bounds of the model.                                                    *)

\* longest action list the processor is applied to
MaxActions == 3

\* longest action list of a task handed to generateDocumentation
MaxTaskActions == 2

---------------------------------------------------------------------------
(* Generic helpers.                                                        *)

\* An absent optional number (JavaScript's undefined).  The numbers of the
\* model are non-negative, so a negative value stands for "no value".
Undefined == 0 - 1

At(s, i) == s[i + 1]

SeqsUpTo(S, n) == UNION {[1..k -> S] : k \in 0..n}

Min(a, b) == IF a < b THEN a ELSE b

Max(a, b) == IF a > b THEN a ELSE b

\* Array.prototype.slice(start, end) with integer arguments: negative
\* arguments count from the end, out-of-range ones are clamped.
Slice(s, start, end) ==
    LET len == Len(s)
        k == IF start < 0 THEN Max(len + start, 0) ELSE Min(start, len)
        final == IF end < 0 THEN Max(len + end, 0) ELSE Min(end, len)
    IN IF final <= k THEN <<>> ELSE SubSeq(s, k + 1, final)

---------------------------------------------------------------------------
(* Actions and URLs.                                                       *)

ActionTypes == {"click", "input", "navigation", "copy", "scroll"}

\* The URL strings of the model.  Two pages of one host, a page of another
\* host, and a string that new URL() rejects.
UrlAX == "https://a.example/x"
UrlAY == "https://a.example/y"
UrlB == "https://b.example/"
UrlBad == "not a url"

Urls == {UrlAX, UrlAY, UrlB, UrlBad}

\* new URL(u) succeeds
UrlParses(u) == u \in {UrlAX, UrlAY, UrlB}

\* new URL(u).hostname, for a u that parses
Hostname(u) ==
    CASE u = UrlAX -> "a.example"
      [] u = UrlAY -> "a.example"
      [] u = UrlB -> "b.example"

\* metadata.idleTimeBefore values: absent, and the chunk threshold
IdleValues == {Undefined, 15000}

\* timestamp of the first action of a recording
BaseTime == 1000

\* value || 0 for an optional number
OrZero(v) == IF v = Undefined THEN 0 ELSE v

\* The shapes of the processor's inputs: what the content script fills in
\* apart from the timestamp.
ProcTypes == {"click", "navigation", "copy"}

ActionShapes == [type : ProcTypes, url : Urls, idleTimeBefore : IdleValues]

\* idle times on both sides of the chunk threshold
ChunkIdleValues == {Undefined, 14999, 15000}

\* shapes that vary the idle time around the chunk threshold
ChunkPauseShapes ==
    [type : {"click", "copy"}, url : {UrlAX, UrlB}, idleTimeBefore : ChunkIdleValues]

RECURSIVE SumIdle(_, _)
SumIdle(shapes, k) ==
    IF k = 0 THEN 0 ELSE SumIdle(shapes, k - 1) + OrZero(shapes[k].idleTimeBefore)

\* captureAction: timestamp = Date.now(), idleTimeBefore = the time since
\* the previous action.
Stamp(shapes) ==
    [k \in 1..Len(shapes) |->
        [type |-> shapes[k].type,
         timestamp |-> BaseTime + SumIdle(shapes, k),
         url |-> shapes[k].url,
         text |-> "target text",
         pageTitle |-> "page title",
         idleTimeBefore |-> shapes[k].idleTimeBefore]]

---------------------------------------------------------------------------
(* processor.ts: pre-chunking.                                             *)

LONG_PAUSE_THRESHOLD_MS == 10000
CHUNK_PAUSE_THRESHOLD_MS == 15000
REPEATED_ACTION_THRESHOLD == 3

getActionMode(type) ==
    CASE type \in {"navigation", "scroll"} -> "navigation"
      [] type = "copy" -> "extraction"
      [] OTHER -> "interaction"

\* the closure createChunk of preChunkActions; st = [chunks, currentChunkStart]
createChunk_SameStart(acts, st, endIndex, boundary) ==
    IF endIndex >= st.currentChunkStart
    THEN [chunks |-> Append(st.chunks,
                        [startIndex |-> st.currentChunkStart,
                         endIndex |-> endIndex,
                         actions |-> Slice(acts, st.currentChunkStart, endIndex + 1),
                         boundary |-> boundary]),
          currentChunkStart |-> endIndex]
    ELSE st

\* createChunk that labels every chunk 'start'
createChunk_LabelStart(acts, st, endIndex, boundary) ==
    IF endIndex >= st.currentChunkStart
    THEN [chunks |-> Append(st.chunks,
                        [startIndex |-> st.currentChunkStart,
                         endIndex |-> endIndex,
                         actions |-> Slice(acts, st.currentChunkStart, endIndex + 1),
                         boundary |-> "start"]),
          currentChunkStart |-> endIndex + 1]
    ELSE st

createChunk(acts, st, endIndex, boundary) ==
    IF endIndex >= st.currentChunkStart
    THEN [chunks |-> Append(st.chunks,
                        [startIndex |-> st.currentChunkStart,
                         endIndex |-> endIndex,
                         actions |-> Slice(acts, st.currentChunkStart, endIndex + 1),
                         boundary |-> boundary]),
          currentChunkStart |-> endIndex + 1]
    ELSE st

\* the rules with a pause threshold that is not inclusive
splitBoundary_StrictPause(action, lastUrl, lastMode) ==
    IF OrZero(action.idleTimeBefore) > CHUNK_PAUSE_THRESHOLD_MS
    THEN "long_pause"
    ELSE IF action.url # lastUrl
    THEN IF ~UrlParses(lastUrl) \/ ~UrlParses(action.url)
         THEN "url_change"
         ELSE IF Hostname(lastUrl) # Hostname(action.url)
              THEN "url_change"
              ELSE "none"
    ELSE IF getActionMode(action.type) # lastMode
    THEN "mode_change"
    ELSE "none"

\* The rule that fires at index i >= 1 ("none" when shouldSplit stays false).
\* The three tests are one if / else-if chain.
splitBoundary(action, lastUrl, lastMode) ==
    IF OrZero(action.idleTimeBefore) >= CHUNK_PAUSE_THRESHOLD_MS
    THEN "long_pause"
    ELSE IF action.url # lastUrl
    THEN IF ~UrlParses(lastUrl) \/ ~UrlParses(action.url)
         THEN "url_change"
         ELSE IF Hostname(lastUrl) # Hostname(action.url)
              THEN "url_change"
              ELSE "none"
    ELSE IF getActionMode(action.type) # lastMode
    THEN "mode_change"
    ELSE "none"

\* the for loop of preChunkActions, from index i
RECURSIVE preChunkLoop(_, _, _, _, _)
preChunkLoop(acts, i, st, lastUrl, lastMode) ==
    IF i >= Len(acts)
    THEN st
    ELSE LET action == At(acts, i)
             boundary == splitBoundary(action, lastUrl, lastMode)
             st2 == IF boundary # "none"
                    THEN createChunk(acts, st, i - 1, boundary)
                    ELSE st
         IN preChunkLoop(acts, i + 1, st2, action.url, getActionMode(action.type))

preChunkActions(acts) ==
    IF Len(acts) = 0
    THEN <<>>
    ELSE LET st0 == [chunks |-> <<>>, currentChunkStart |-> 0]
             st == preChunkLoop(acts, 1, st0, At(acts, 0).url,
                                getActionMode(At(acts, 0).type))
         IN IF st.currentChunkStart < Len(acts)
            THEN createChunk(acts, st, Len(acts) - 1, "start").chunks
            ELSE st.chunks

---------------------------------------------------------------------------
(* processor.ts: metrics.                                                  *)

\* detectLongPauses with a threshold that is not inclusive
RECURSIVE detectLongPausesLoop_Strict(_, _, _)
detectLongPausesLoop_Strict(acts, i, pauses) ==
    IF i >= Len(acts)
    THEN pauses
    ELSE LET idleTime == At(acts, i).idleTimeBefore
         IN detectLongPausesLoop_Strict(acts, i + 1,
                IF idleTime # Undefined /\ idleTime # 0
                   /\ idleTime > LONG_PAUSE_THRESHOLD_MS
                THEN Append(pauses, [index |-> i, durationMs |-> idleTime])
                ELSE pauses)

\* the for loop of detectLongPauses, from index i
RECURSIVE detectLongPausesLoop(_, _, _)
detectLongPausesLoop(acts, i, pauses) ==
    IF i >= Len(acts)
    THEN pauses
    ELSE LET idleTime == At(acts, i).idleTimeBefore
         IN detectLongPausesLoop(acts, i + 1,
                IF idleTime # Undefined /\ idleTime # 0
                   /\ idleTime >= LONG_PAUSE_THRESHOLD_MS
                THEN Append(pauses, [index |-> i, durationMs |-> idleTime])
                ELSE pauses)

detectLongPauses(acts) == detectLongPausesLoop(acts, 0, <<>>)

\* a find that also leaves out the entry before the last one
findPrevious_SkipsTwo(urlHistory, currentUrl) ==
    LET hits == {idx \in 1..(Len(urlHistory) - 2) : urlHistory[idx].url = currentUrl}
    IN IF hits = {} THEN 0 ELSE CHOOSE idx \in hits : \A j \in hits : idx <= j

\* urlHistory.find((h, idx) => h.url === currentUrl && idx < length - 1):
\* the position (1-based) of the first such entry, 0 when there is none
findPrevious(urlHistory, currentUrl) ==
    LET hits == {idx \in 1..(Len(urlHistory) - 1) : urlHistory[idx].url = currentUrl}
    IN IF hits = {} THEN 0 ELSE CHOOSE idx \in hits : \A j \in hits : idx <= j

\* length of the urlHistory window
URL_HISTORY_LIMIT == 10

\* a history that is never shortened
shiftHistory_Never(pushed) == pushed

\* a history that keeps one entry more
shiftHistory_KeepsEleven(pushed) ==
    IF Len(pushed) > URL_HISTORY_LIMIT + 1 THEN Tail(pushed) ELSE pushed

\* if (urlHistory.length > 10) urlHistory.shift()
shiftHistory(pushed) ==
    IF Len(pushed) > URL_HISTORY_LIMIT THEN Tail(pushed) ELSE pushed

\* the for loop of detectBackForthPatterns, from index i
RECURSIVE detectBackForthLoop(_, _, _, _)
detectBackForthLoop(acts, i, patterns, urlHistory) ==
    IF i >= Len(acts)
    THEN patterns
    ELSE LET currentUrl == At(acts, i).url
             prev == findPrevious(urlHistory, currentUrl)
             intermediateIndices ==
                 [k \in 1..(Len(urlHistory) - prev) |-> urlHistory[prev + k].index]
             patterns2 ==
                 IF prev # 0 /\ Len(urlHistory) > 0 /\ Len(intermediateIndices) > 0
                 THEN Append(patterns,
                        [indices |-> <<urlHistory[prev].index>>
                                       \o intermediateIndices \o <<i>>])
                 ELSE patterns
             pushed == Append(urlHistory, [url |-> currentUrl, index |-> i])
             history2 == shiftHistory(pushed)
         IN detectBackForthLoop(acts, i + 1, patterns2, history2)

detectBackForthPatterns(acts) == detectBackForthLoop(acts, 0, <<>>, <<>>)

\* no current run yet (currentType = null)
NoType == ""

\* a save step that takes runs of two already
pushRun_FromTwo(runs, currentType, currentIndices) ==
    IF currentType # NoType /\ Len(currentIndices) >= REPEATED_ACTION_THRESHOLD - 1
    THEN Append(runs, [type |-> currentType,
                         count |-> Len(currentIndices),
                         indices |-> currentIndices])
    ELSE runs

\* the "save the sequence if it meets the threshold" step of detectRepeatedActions
pushRun(runs, currentType, currentIndices) ==
    IF currentType # NoType /\ Len(currentIndices) >= REPEATED_ACTION_THRESHOLD
    THEN Append(runs, [type |-> currentType,
                         count |-> Len(currentIndices),
                         indices |-> currentIndices])
    ELSE runs

\* the for loop of detectRepeatedActions, from index i, and its last check
RECURSIVE detectRepeatedLoop(_, _, _, _, _)
detectRepeatedLoop(acts, i, runs, currentType, currentIndices) ==
    IF i >= Len(acts)
    THEN pushRun(runs, currentType, currentIndices)
    ELSE LET action == At(acts, i)
         IN IF action.type = currentType
            THEN detectRepeatedLoop(acts, i + 1, runs, currentType,
                                    Append(currentIndices, i))
            ELSE detectRepeatedLoop(acts, i + 1,
                                    pushRun(runs, currentType, currentIndices),
                                    action.type, <<i>>)

detectRepeatedActions(acts) == detectRepeatedLoop(acts, 0, <<>>, NoType, <<>>)

RECURSIVE detectExtractionLoop(_, _, _)
detectExtractionLoop(acts, i, out) ==
    IF i >= Len(acts)
    THEN out
    ELSE detectExtractionLoop(acts, i + 1,
            IF At(acts, i).type = "copy"
            THEN Append(out, [index |-> i,
                              context |-> <<At(acts, i).pageTitle, " - ",
                                            At(acts, i).text>>])
            ELSE out)

detectExtractionActions(acts) == detectExtractionLoop(acts, 0, <<>>)

\* an add that keeps duplicates, as a plain array push would
setAdd_Duplicates(domains, d) == Append(domains, d)

\* domains.add(hostname): a Set keeps insertion order and no duplicates
setAdd(domains, d) ==
    IF \E k \in 1..Len(domains) : domains[k] = d THEN domains ELSE Append(domains, d)

\* the for loop of analyzeUrls, from index i; lastUrl starts as ''
RECURSIVE analyzeUrlsLoop(_, _, _, _, _)
analyzeUrlsLoop(acts, i, urlChanges, lastUrl, domains) ==
    IF i >= Len(acts)
    THEN [urlChanges |-> urlChanges, uniqueDomains |-> domains]
    ELSE LET url == At(acts, i).url
         IN IF url # lastUrl
            THEN analyzeUrlsLoop(acts, i + 1, urlChanges + 1, url,
                    IF UrlParses(url) THEN setAdd(domains, Hostname(url)) ELSE domains)
            ELSE analyzeUrlsLoop(acts, i + 1, urlChanges, lastUrl, domains)

analyzeUrls(acts) == analyzeUrlsLoop(acts, 0, 0, "", <<>>)

\* the all-zero metrics, written out in calculateMetrics and in createEmptyResult
EmptyMetrics ==
    [totalActions |-> 0,
     totalDurationMs |-> 0,
     longPauses |-> <<>>,
     backForthPatterns |-> <<>>,
     repeatedActions |-> <<>>,
     extractionActions |-> <<>>,
     urlChanges |-> 0,
     uniqueDomains |-> <<>>]

\* calculateMetrics that reports the last index as totalActions
calculateMetrics_LastIndex(acts) ==
    IF Len(acts) = 0
    THEN EmptyMetrics
    ELSE [totalActions |-> Len(acts) - 1,
          totalDurationMs |-> At(acts, Len(acts) - 1).timestamp - At(acts, 0).timestamp,
          longPauses |-> detectLongPauses(acts),
          backForthPatterns |-> detectBackForthPatterns(acts),
          repeatedActions |-> detectRepeatedActions(acts),
          extractionActions |-> detectExtractionActions(acts),
          urlChanges |-> analyzeUrls(acts).urlChanges,
          uniqueDomains |-> analyzeUrls(acts).uniqueDomains]

calculateMetrics(acts) ==
    IF Len(acts) = 0
    THEN EmptyMetrics
    ELSE [totalActions |-> Len(acts),
          totalDurationMs |-> At(acts, Len(acts) - 1).timestamp - At(acts, 0).timestamp,
          longPauses |-> detectLongPauses(acts),
          backForthPatterns |-> detectBackForthPatterns(acts),
          repeatedActions |-> detectRepeatedActions(acts),
          extractionActions |-> detectExtractionActions(acts),
          urlChanges |-> analyzeUrls(acts).urlChanges,
          uniqueDomains |-> analyzeUrls(acts).uniqueDomains]

---------------------------------------------------------------------------
(* llm.ts: configuration and the fallback list.                            *)

OPENAI_MODEL_FALLBACK_CHAIN ==
    <<"gpt-4o", "gpt-4o-mini", "gpt-4-turbo", "gpt-4", "gpt-3.5-turbo">>

CLAUDE_MODEL_FALLBACK_CHAIN ==
    <<"claude-sonnet-4-20250514", "claude-3-5-sonnet-20241022",
      "claude-3-sonnet-20240229", "claude-3-haiku-20240307">>

\* an environment variable that is not set (or set to '')
Unset == ""

\* chain.filter(m => m !== preferredModel)
RECURSIVE filterOut(_, _)
filterOut(chain, preferredModel) ==
    IF chain = <<>>
    THEN <<>>
    ELSE IF Head(chain) # preferredModel
         THEN <<Head(chain)>> \o filterOut(Tail(chain), preferredModel)
         ELSE filterOut(Tail(chain), preferredModel)

\* a list that puts the preferred model in front of the whole chain
modelList_KeepPreferred(preferredModel, chain) ==
    IF preferredModel # Unset THEN <<preferredModel>> \o chain ELSE chain

\* preferredModel ? [preferredModel, ...chain.filter(...)] : chain
modelList(preferredModel, chain) ==
    IF preferredModel # Unset
    THEN <<preferredModel>> \o filterOut(chain, preferredModel)
    ELSE chain

\* getConfig() under the environment e = [LLM_PROVIDER, OPENAI_MODEL,
\* CLAUDE_MODEL, OPENAI_API_KEY, ANTHROPIC_API_KEY]
getConfig(e) ==
    LET provider == IF e.LLM_PROVIDER # Unset THEN e.LLM_PROVIDER ELSE "openai"
    IN [provider |-> provider,
        models |-> IF provider = "claude"
                   THEN modelList(e.CLAUDE_MODEL, CLAUDE_MODEL_FALLBACK_CHAIN)
                   ELSE modelList(e.OPENAI_MODEL, OPENAI_MODEL_FALLBACK_CHAIN)]

\* The environments of the model: either provider; no preferred model, one
\* of the chain, or one outside it; the provider's API key set or missing.
Environments ==
    {[LLM_PROVIDER |-> Unset, OPENAI_MODEL |-> om, CLAUDE_MODEL |-> Unset,
      OPENAI_API_KEY |-> k, ANTHROPIC_API_KEY |-> Unset] :
        om \in {Unset, "gpt-4-turbo", "my-finetune"}, k \in {Unset, "sk-key"}}
    \cup
    {[LLM_PROVIDER |-> "claude", OPENAI_MODEL |-> Unset, CLAUDE_MODEL |-> cm,
      OPENAI_API_KEY |-> Unset, ANTHROPIC_API_KEY |-> k] :
        cm \in {Unset, "claude-3-sonnet-20240229", "my-finetune"},
        k \in {Unset, "sk-key"}}

\* What one request to the provider can come back with, apart from a text:
\* an error of the SDK (HTTP failure), or a reply without usable content.
FailureReplies == {"api_error", "no_content"}

\* message of the SDK's error, and the status it carries
ApiErrorMessage == "429 rate limit exceeded"
ApiErrorStatus == "429"

\* The message of the Error completeWithOpenAI throws: an APIError is
\* wrapped, a reply without content is reported with its finish reason.
completeWithOpenAI_Error(reply) ==
    IF reply = "api_error"
    THEN <<"OpenAI API Error: ", ApiErrorMessage, " (Status: ", ApiErrorStatus, ")">>
    ELSE <<"Response was filtered by content filter">>

\* The message of the Error completeWithClaude throws: the SDK's own error
\* passes through, a reply without a text block is reported.
completeWithClaude_Error(reply) ==
    IF reply = "api_error"
    THEN <<ApiErrorMessage>>
    ELSE <<"No text response from Claude">>

\* getOpenAIClient / getAnthropicClient: the Error thrown when the
\* provider's API key is missing at the first construction of the client
missingKeyError(provider) ==
    IF provider = "claude"
    THEN <<"ANTHROPIC_API_KEY environment variable is required">>
    ELSE <<"OPENAI_API_KEY environment variable is required">>

apiKey(e, provider) ==
    IF provider = "claude" THEN e.ANTHROPIC_API_KEY ELSE e.OPENAI_API_KEY

\* errorSummary with only the last failure kept
errorSummary_LastOnly(errs) ==
    IF errs = <<>>
    THEN <<>>
    ELSE <<errs[Len(errs)].model, ": ">> \o errs[Len(errs)].error

\* errors.map(e => `${e.model}: ${e.error}`).join('\n  ')
RECURSIVE errorSummary(_)
errorSummary(errs) ==
    IF errs = <<>>
    THEN <<>>
    ELSE <<Head(errs).model, ": ">> \o Head(errs).error
         \o (IF Tail(errs) = <<>> THEN <<>> ELSE <<"\n  ">> \o errorSummary(Tail(errs)))

\* new Error(`All ${config.provider} models failed:\n  ${errorSummary}`)
allFailedError(provider, errs) ==
    [name |-> "Error",
     message |-> <<"All ", provider, " models failed:\n  ">> \o errorSummary(errs)]

---------------------------------------------------------------------------
(* JavaScript values, JSON.parse and the delimiter search of the parsers.  *)
(* A response text is a sequence of tokens: the XML-style tags, whitespace *)
(* and pieces of text.                                                     *)

JNull == [t |-> "null"]
JUndefined == [t |-> "undefined"]
JNum(n) == [t |-> "number", n |-> n]
JStr(x) == [t |-> "string", s |-> x]
JArr(items) == [t |-> "array", items |-> items]
JObj(fields) == [t |-> "object", fields |-> fields]

\* v[name] for a v that is neither null nor undefined
prop(v, name) ==
    IF v.t = "object" /\ name \in DOMAIN v.fields THEN v.fields[name] ELSE JUndefined

new_TypeError(msg) == [name |-> "TypeError", message |-> <<msg>>]

NoError == [name |-> "", message |-> <<>>]

\* the texts between the tags
J_TwoChunks == "[{\"phase\":\"Search\",\"startIndex\":0,\"endIndex\":0,\"patterns\":[],\"inferredIntent\":\"find\"},{\"phase\":\"Extract\",\"startIndex\":1,\"endIndex\":1,\"patterns\":[],\"inferredIntent\":\"copy\"}]"
J_OneChunk == "[{\"phase\":\"Search\",\"startIndex\":0,\"endIndex\":0,\"patterns\":[],\"inferredIntent\":\"find\"}]"
J_PhaseOnly == "[{\"phase\":\"Search\"}]"
J_WideChunks == "[{\"phase\":\"All\",\"startIndex\":0,\"endIndex\":1,\"patterns\":[],\"inferredIntent\":\"do\"},{\"phase\":\"Tail\",\"startIndex\":-1,\"endIndex\":5,\"patterns\":[],\"inferredIntent\":\"end\"}]"
J_EmptyArray == "[]"
J_EmptyObject == "{}"
J_String == "\"none\""
J_Number == "42"
J_Null == "null"
J_ArrayOfNull == "[null]"
J_Truncated == "[{\"phase\":"
J_KnowHow == "{\"decision_criteria\":[{\"situation\":\"s\",\"criterion\":\"c\",\"source_pattern\":\"long_pause\",\"confidence\":1}],\"success_signals\":[\"ok\"],\"failure_signals\":[],\"critical_fields\":[],\"corner_cases\":[],\"expert_shortcuts\":[]}"
J_KnowHowTwoFields == "{\"decision_criteria\":[],\"corner_cases\":[]}"
Prose == "Here is my analysis."
Space == "\n"

chunkValue(phase, startIndex, endIndex, intent) ==
    JObj([phase |-> JStr(phase), startIndex |-> JNum(startIndex),
          endIndex |-> JNum(endIndex), patterns |-> JArr(<<>>),
          inferredIntent |-> JStr(intent)])

\* JSON.parse(text): [ok, value]; ok = FALSE is the SyntaxError
JSON_parse(text) ==
    CASE text = J_TwoChunks ->
           [ok |-> TRUE, value |-> JArr(<<chunkValue("Search", 0, 0, "find"),
                                         chunkValue("Extract", 1, 1, "copy")>>)]
      [] text = J_OneChunk ->
           [ok |-> TRUE, value |-> JArr(<<chunkValue("Search", 0, 0, "find")>>)]
      [] text = J_PhaseOnly ->
           [ok |-> TRUE, value |-> JArr(<<JObj([phase |-> JStr("Search")])>>)]
      [] text = J_WideChunks ->
           [ok |-> TRUE, value |-> JArr(<<chunkValue("All", 0, 1, "do"),
                                         chunkValue("Tail", 0 - 1, 5, "end")>>)]
      [] text = J_EmptyArray -> [ok |-> TRUE, value |-> JArr(<<>>)]
      [] text = J_EmptyObject -> [ok |-> TRUE, value |-> JObj(<<>>)]
      [] text = J_String -> [ok |-> TRUE, value |-> JStr("none")]
      [] text = J_Number -> [ok |-> TRUE, value |-> JNum(42)]
      [] text = J_Null -> [ok |-> TRUE, value |-> JNull]
      [] text = J_ArrayOfNull -> [ok |-> TRUE, value |-> JArr(<<JNull>>)]
      [] text = J_KnowHow ->
           [ok |-> TRUE,
            value |-> JObj([decision_criteria |->
                               JArr(<<JObj([situation |-> JStr("s"),
                                            criterion |-> JStr("c"),
                                            source_pattern |-> JStr("long_pause"),
                                            confidence |-> JNum(1)])>>),
                            success_signals |-> JArr(<<JStr("ok")>>),
                            failure_signals |-> JArr(<<>>),
                            critical_fields |-> JArr(<<>>),
                            corner_cases |-> JArr(<<>>),
                            expert_shortcuts |-> JArr(<<>>)])]
      [] text = J_KnowHowTwoFields ->
           [ok |-> TRUE,
            value |-> JObj([decision_criteria |-> JArr(<<>>),
                            corner_cases |-> JArr(<<>>)])]
      [] OTHER -> [ok |-> FALSE, value |-> JUndefined]

\* String.prototype.trim on a token sequence: whitespace off both ends
RECURSIVE trimLeft(_)
trimLeft(toks) ==
    IF toks # <<>> /\ Head(toks) = Space THEN trimLeft(Tail(toks)) ELSE toks

RECURSIVE trimRight(_)
trimRight(toks) ==
    IF toks # <<>> /\ toks[Len(toks)] = Space
    THEN trimRight(SubSeq(toks, 1, Len(toks) - 1))
    ELSE toks

trim(toks) == trimRight(trimLeft(toks))

\* position of the first token equal to tok at or after position from, 0 if none
firstIndexFrom(toks, tok, from) ==
    LET hits == {k \in from..Len(toks) : toks[k] = tok}
    IN IF hits = {} THEN 0 ELSE CHOOSE k \in hits : \A j \in hits : k <= j

\* response.match(/<open>([\s\S]*?)<\/close>/): the first opening tag and
\* the nearest closing tag after it; [matched, group] with group the
\* captured text
matchBlock(response, open, close) ==
    LET i == firstIndexFrom(response, open, 1)
        j == IF i = 0 THEN 0 ELSE firstIndexFrom(response, close, i + 1)
    IN IF i = 0 \/ j = 0
       THEN [matched |-> FALSE, group |-> <<>>]
       ELSE [matched |-> TRUE, group |-> SubSeq(response, i + 1, j - 1)]

\* JSON.parse of a token sequence: one JSON text is one token
parseTokens(toks) ==
    IF Len(toks) = 1 THEN JSON_parse(toks[1]) ELSE [ok |-> FALSE, value |-> JUndefined]

---------------------------------------------------------------------------
(* prompts/chunker.ts, prompts/analyzer.ts: the response parsers, and the  *)
(* conversions generateDocumentation applies to what they return.          *)

\* parseChunkerResponse whose chunks has no initial value
parseChunkerResponse_NoDefault(response) ==
    LET chunksMatch == matchBlock(response, "<chunks>", "</chunks>")
        parsed == parseTokens(trim(chunksMatch.group))
    IN [chunks |-> IF chunksMatch.matched /\ parsed.ok
                   THEN parsed.value
                   ELSE JUndefined]

\* parseChunkerResponse(response).chunks: whatever JSON.parse returned, or
\* [] when there is no block or the block is not JSON
parseChunkerResponse(response) ==
    LET chunksMatch == matchBlock(response, "<chunks>", "</chunks>")
        parsed == parseTokens(trim(chunksMatch.group))
    IN [chunks |-> IF chunksMatch.matched /\ parsed.ok
                   THEN parsed.value
                   ELSE JArr(<<>>)]

\* the arguments of task.actions.slice(chunk.startIndex, chunk.endIndex + 1):
\* undefined as start is 0, undefined + 1 is NaN, which slice reads as 0
sliceStart(v) == IF v.t = "number" THEN v.n ELSE 0

\* an end argument that leaves the chunk's last action out
sliceEnd_Exclusive(v) == IF v.t = "number" THEN v.n ELSE 0

sliceEnd(v) == IF v.t = "number" THEN v.n + 1 ELSE 0

\* chunkerParsed.chunks.map(chunk => ({...})): [threw, error, chunks]
convertChunks(parsedChunks, acts) ==
    IF parsedChunks.t = "null"
    THEN [threw |-> TRUE,
          error |-> new_TypeError("Cannot read properties of null (reading 'map')"),
          chunks |-> <<>>]
    ELSE IF parsedChunks.t # "array"
    THEN [threw |-> TRUE,
          error |-> new_TypeError("chunkerParsed.chunks.map is not a function"),
          chunks |-> <<>>]
    ELSE IF \E k \in 1..Len(parsedChunks.items) : parsedChunks.items[k].t = "null"
    THEN [threw |-> TRUE,
          error |-> new_TypeError("Cannot read properties of null (reading 'phase')"),
          chunks |-> <<>>]
    ELSE [threw |-> FALSE,
          error |-> NoError,
          chunks |-> [k \in 1..Len(parsedChunks.items) |->
              LET chunk == parsedChunks.items[k]
              IN [phase |-> prop(chunk, "phase"),
                  startIndex |-> prop(chunk, "startIndex"),
                  endIndex |-> prop(chunk, "endIndex"),
                  actions |-> Slice(acts, sliceStart(prop(chunk, "startIndex")),
                                    sliceEnd(prop(chunk, "endIndex"))),
                  patterns |-> prop(chunk, "patterns"),
                  inferredIntent |-> prop(chunk, "inferredIntent")]]]

\* the initial knowHow of parseAnalyzerResponse
DefaultKnowHow ==
    JObj([decision_criteria |-> JArr(<<>>),
          success_signals |-> JArr(<<>>),
          failure_signals |-> JArr(<<>>),
          critical_fields |-> JArr(<<>>),
          corner_cases |-> JArr(<<>>),
          expert_shortcuts |-> JArr(<<>>)])

\* parseAnalyzerResponse(response).knowHow
parseAnalyzerResponse(response) ==
    LET knowHowMatch == matchBlock(response, "<know_how_extraction>",
                                   "</know_how_extraction>")
        parsed == parseTokens(trim(knowHowMatch.group))
    IN [knowHow |-> IF knowHowMatch.matched /\ parsed.ok
                    THEN parsed.value
                    ELSE DefaultKnowHow]

\* list.map(item => ({a: item.x, ...})) on a JavaScript value `list`, names
\* giving for each field of the result the field of the item it is read
\* from: [threw, error, value]
mapItems(list, names) ==
    IF list.t = "undefined"
    THEN [threw |-> TRUE,
          error |-> new_TypeError("Cannot read properties of undefined (reading 'map')"),
          value |-> JUndefined]
    ELSE IF list.t # "array"
    THEN [threw |-> TRUE,
          error |-> new_TypeError("map is not a function"),
          value |-> JUndefined]
    ELSE IF \E k \in 1..Len(list.items) : list.items[k].t = "null"
    THEN [threw |-> TRUE,
          error |-> new_TypeError("Cannot read properties of null"),
          value |-> JUndefined]
    ELSE [threw |-> FALSE,
          error |-> NoError,
          value |-> JArr([k \in 1..Len(list.items) |->
                            [n \in DOMAIN names |-> prop(list.items[k], names[n])]])]

\* the knowHow object literal of generateDocumentation: [threw, error, knowHow]
convertKnowHow(kh) ==
    IF kh.t = "null"
    THEN [threw |-> TRUE,
          error |-> new_TypeError(
              "Cannot read properties of null (reading 'decision_criteria')"),
          knowHow |-> JUndefined]
    ELSE LET dc == mapItems(prop(kh, "decision_criteria"),
                            [situation |-> "situation", criterion |-> "criterion",
                             sourcePattern |-> "source_pattern",
                             confidence |-> "confidence"])
             cc == mapItems(prop(kh, "corner_cases"),
                            [situation |-> "situation", resolution |-> "resolution",
                             sourceEvidence |-> "source_evidence"])
         IN IF dc.threw
            THEN [threw |-> TRUE, error |-> dc.error, knowHow |-> JUndefined]
            ELSE IF cc.threw
            THEN [threw |-> TRUE, error |-> cc.error, knowHow |-> JUndefined]
            ELSE [threw |-> FALSE,
                  error |-> NoError,
                  knowHow |-> [decisionCriteria |-> dc.value,
                               successSignals |-> prop(kh, "success_signals"),
                               failureSignals |-> prop(kh, "failure_signals"),
                               criticalFields |-> prop(kh, "critical_fields"),
                               cornerCases |-> cc.value,
                               expertShortcuts |-> prop(kh, "expert_shortcuts")]]

---------------------------------------------------------------------------
(* prompts/markdown-generator.ts: the renderer's parser.  The renderer's   *)
(* response is a sequence of lines (the text split at "\n").               *)

H_Summary == "# Summary"
H_Instructions == "# Instructions"
H_KnowHow == "# Know-How"
L_SubSummary == "## Summary"
L_InstructionsLong == "# Instructions for the operator"
Blank == ""

\* line ends with the text h
endsWith(line, h) == line = h \/ (line = L_SubSummary /\ h = H_Summary)

\* line starts with the text h
startsWith(line, h) == line = h \/ (line = L_InstructionsLong /\ h = H_Instructions)

\* String.prototype.trim on lines: blank lines off both ends
RECURSIVE trimLinesLeft(_)
trimLinesLeft(lines) ==
    IF lines # <<>> /\ Head(lines) = Blank THEN trimLinesLeft(Tail(lines)) ELSE lines

RECURSIVE trimLinesRight(_)
trimLinesRight(lines) ==
    IF lines # <<>> /\ lines[Len(lines)] = Blank
    THEN trimLinesRight(SubSeq(lines, 1, Len(lines) - 1))
    ELSE lines

trimLines(lines) == trimLinesRight(trimLinesLeft(lines))

\* a parser that returns the whole text for a heading it does not find
matchSection_NoMatchKeepsText(raw, heading, terminators) ==
    LET heads == {j \in 1..(Len(raw) - 1) : endsWith(raw[j], heading)}
    IN IF heads = {}
       THEN raw
       ELSE LET j == CHOOSE x \in heads : \A y \in heads : x <= y
                stops == {m \in (j + 2)..Len(raw) :
                             \E t \in terminators : startsWith(raw[m], t)}
                m == IF stops = {}
                     THEN Len(raw) + 1
                     ELSE CHOOSE x \in stops : \A y \in stops : x <= y
            IN trimLines(SubSeq(raw, j + 1, m - 1))

\* a parser whose group starts at the heading line itself
matchSection_KeepsHeading(raw, heading, terminators) ==
    LET heads == {j \in 1..(Len(raw) - 1) : endsWith(raw[j], heading)}
    IN IF heads = {}
       THEN <<>>
       ELSE LET j == CHOOSE x \in heads : \A y \in heads : x <= y
                stops == {m \in (j + 2)..Len(raw) :
                             \E t \in terminators : startsWith(raw[m], t)}
                m == IF stops = {}
                     THEN Len(raw) + 1
                     ELSE CHOOSE x \in stops : \A y \in stops : x <= y
            IN trimLines(SubSeq(raw, j, m - 1))

\* raw.match(/<heading>\n([\s\S]*?)(?=\n<t1>|\n<t2>|$)/) and the trim of its
\* group, '' without a match.  The heading must end a line that a "\n"
\* follows; the group runs from the next line to the line before the
\* first line that starts with a terminator and has a "\n" of the group's
\* range before it (so not the line right after the heading), or to the end.
matchSection(raw, heading, terminators) ==
    LET heads == {j \in 1..(Len(raw) - 1) : endsWith(raw[j], heading)}
    IN IF heads = {}
       THEN <<>>
       ELSE LET j == CHOOSE x \in heads : \A y \in heads : x <= y
                stops == {m \in (j + 2)..Len(raw) :
                             \E t \in terminators : startsWith(raw[m], t)}
                m == IF stops = {}
                     THEN Len(raw) + 1
                     ELSE CHOOSE x \in stops : \A y \in stops : x <= y
            IN trimLines(SubSeq(raw, j + 1, m - 1))

parseGeneratorResponse(response) ==
    LET rawMarkdown == trimLines(response)
    IN [summary |-> matchSection(rawMarkdown, H_Summary, {H_Instructions, H_KnowHow}),
        instructions |-> matchSection(rawMarkdown, H_Instructions, {H_KnowHow}),
        knowHow |-> matchSection(rawMarkdown, H_KnowHow, {}),
        rawMarkdown |-> rawMarkdown]

---------------------------------------------------------------------------
(* generator.ts: createEmptyResult.                                        *)

createEmptyResult ==
    [chunks |-> <<>>,
     metrics |-> EmptyMetrics,
     knowHow |-> [decisionCriteria |-> JArr(<<>>),
                  successSignals |-> JArr(<<>>),
                  failureSignals |-> JArr(<<>>),
                  criticalFields |-> JArr(<<>>),
                  cornerCases |-> JArr(<<>>),
                  expertShortcuts |-> JArr(<<>>)],
     output |-> [summary |-> <<"No actions were recorded.">>,
                 instructions |-> <<"No steps to document.">>,
                 knowHow |-> <<"No know-how extracted.">>,
                 rawMarkdown |-> <<H_Summary, Blank, "No actions were recorded.", Blank,
                                   H_Instructions, Blank, "No steps to document.", Blank,
                                   H_KnowHow, Blank, "No know-how extracted.">>]]

---------------------------------------------------------------------------
(* The processor applied to an action list.                                *)

\* no task is stored
NoTask == [status |-> "none"]

\* no recording is running in the extension
CaptureIdle ==
    /\ state = [isRecording |-> FALSE, actions |-> <<>>, actionCount |-> 0]
    /\ batchInterval = FALSE
    /\ stopPc = "idle"
    /\ flushes = <<>>

\* no request has reached the routes
StoreIdle ==
    /\ storeKind = "memory"
    /\ stored = NoTask
    /\ handlers = <<>>
    /\ statusLog = <<>>
    /\ generations = <<>>

\* the variables outside the pre-chunker and the pipeline, untouched
SideIdle ==
    /\ CaptureIdle
    /\ StoreIdle
    /\ taskMetrics = [called |-> FALSE]
    /\ sectionTexts = <<>>
    /\ sections = [called |-> FALSE]
    /\ task = NoTask

\* the pipeline's variables before generateDocumentation is called
PipelineIdle ==
    /\ openaiClient = FALSE
    /\ anthropicClient = FALSE
    /\ pc = "idle"
    /\ stage = "none"
    /\ calls = <<>>
    /\ modelIdx = 0
    /\ errors = <<>>
    /\ tried = <<>>
    /\ chunkerResponse = <<>>
    /\ analyzerResponse = <<>>
    /\ generatorResponse = <<>>
    /\ chunks = <<>>
    /\ knowHow = JUndefined
    /\ result = [returned |-> FALSE]
    /\ thrown = NoError

InitProc ==
    /\ \E shapes \in SeqsUpTo(ActionShapes, MaxActions)
                        \cup SeqsUpTo(ChunkPauseShapes, MaxActions) :
           actions = Stamp(shapes)
    /\ preChunks = [called |-> FALSE, chunks |-> <<>>]
    /\ env \in {e \in Environments : e.LLM_PROVIDER = Unset /\ e.OPENAI_MODEL = Unset
                                      /\ e.OPENAI_API_KEY # Unset}
    /\ PipelineIdle
    /\ SideIdle

PreChunk ==
    /\ ~preChunks.called
    /\ preChunks' = [called |-> TRUE, chunks |-> preChunkActions(actions)]
    /\ UNCHANGED <<actions, pipelineVars, sideVars>>

NextProc == PreChunk

SpecProc == InitProc /\ [][NextProc]_vars

---------------------------------------------------------------------------
(* calculateMetrics applied to an action list.  The lists come in three    *)
(* families, each varying what one detector reads: types and targets       *)
(* (repeated actions), idle times (long pauses), URLs (back-and-forth,     *)
(* URL changes, domains).                                                  *)

\* longest list of the family that varies types and targets
MaxRunActions == 6

\* longest list of the family that varies URLs
MaxUrlActions == 5

\* longest list of the family that outgrows the URL history
MaxWindowActions == 12

\* the texts of two targets
TargetTexts == {"Save", "Next"}

\* idle times around LONG_PAUSE_THRESHOLD_MS, and none
PauseIdleValues == {Undefined, 9999, 10000, 15000}

RunShapes ==
    [type : {"click", "input"}, text : TargetTexts, url : {UrlAX},
     idleTimeBefore : {Undefined}]

PauseShapes ==
    [type : {"click"}, text : {"Save"}, url : {UrlAX},
     idleTimeBefore : PauseIdleValues]

UrlShapes ==
    [type : {"click"}, text : {"Save"}, url : Urls, idleTimeBefore : {Undefined}]

\* two pages visited in any order, for lists longer than the URL history
WindowShapes ==
    [type : {"click"}, text : {"Save"}, url : {UrlAX, UrlB},
     idleTimeBefore : {Undefined}]

\* buildAction with the target's text taken from the shape
StampTargets(shapes) ==
    [k \in 1..Len(shapes) |->
        [type |-> shapes[k].type,
         timestamp |-> BaseTime + SumIdle(shapes, k),
         url |-> shapes[k].url,
         text |-> shapes[k].text,
         pageTitle |-> "page title",
         idleTimeBefore |-> shapes[k].idleTimeBefore]]

InitMetrics ==
    /\ \E shapes \in SeqsUpTo(RunShapes, MaxRunActions)
                        \cup SeqsUpTo(PauseShapes, MaxActions)
                        \cup SeqsUpTo(UrlShapes, MaxUrlActions)
                        \cup SeqsUpTo(WindowShapes, MaxWindowActions) :
           actions = StampTargets(shapes)
    /\ taskMetrics = [called |-> FALSE]
    /\ CaptureIdle
    /\ StoreIdle
    /\ preChunks = [called |-> FALSE, chunks |-> <<>>]
    /\ env \in {e \in Environments : e.LLM_PROVIDER = Unset /\ e.OPENAI_MODEL = Unset
                                      /\ e.OPENAI_API_KEY # Unset}
    /\ PipelineIdle
    /\ sectionTexts = <<>>
    /\ sections = [called |-> FALSE]
    /\ task = NoTask

CalculateMetrics ==
    /\ ~taskMetrics.called
    /\ taskMetrics' = [called |-> TRUE, metrics |-> calculateMetrics(actions)]
    /\ UNCHANGED <<actions, preChunks, pipelineVars, storeVars, captureVars, sectionTexts, sections, task>>

NextMetrics == CalculateMetrics

SpecMetrics == InitMetrics /\ [][NextMetrics]_vars

---------------------------------------------------------------------------
(* llm.ts complete and generator.ts generateDocumentation as one thread of *)
(* control.  A step runs from one await of a provider request to the next: *)
(* the reply arrives, the code runs on synchronously (catch and next       *)
(* model, or return, parse, convert, build the next prompt, call complete  *)
(* again) until the next request is in flight or the function has ended.   *)

Stages == <<"segmenter", "extractor", "renderer">>

\* the recording of a task: action k of the session
taskShape(k) ==
    [type |-> IF k % 2 = 1 THEN "click" ELSE "copy",
     url |-> IF k % 2 = 1 THEN UrlAX ELSE UrlB,
     idleTimeBefore |-> IF k = 1 THEN Undefined ELSE 15000]

TaskActions(n) == Stamp([k \in 1..n |-> taskShape(k)])

\* what the provider may answer to the segmenter's prompt
SegmenterResponses ==
    {<<"<chunking_analysis>", Prose, "</chunking_analysis>", Space,
       "<chunks>", Space, J_TwoChunks, Space, "</chunks>">>,
     <<"<chunks>", J_OneChunk, "</chunks>">>,
     <<"<chunks>", J_PhaseOnly, "</chunks>">>,
     <<"<chunks>", J_WideChunks, "</chunks>">>,
     <<"<chunks>", J_EmptyArray, "</chunks>">>,
     <<Prose>>,
     <<"<chunks>", J_TwoChunks>>,
     <<"<chunks>", "</chunks>">>,
     <<"<chunks>", J_Truncated, "</chunks>">>,
     <<"<chunks>", Prose, J_OneChunk, "</chunks>">>,
     <<"<chunks>", J_EmptyObject, "</chunks>">>,
     <<"<chunks>", J_String, "</chunks>">>,
     <<"<chunks>", J_Number, "</chunks>">>,
     <<"<chunks>", J_Null, "</chunks>">>,
     <<"<chunks>", J_ArrayOfNull, "</chunks>">>}

\* what the provider may answer to the extractor's prompt
ExtractorResponses ==
    {<<"<analysis>", Prose, "</analysis>", Space,
       "<know_how_extraction>", Space, J_KnowHow, Space, "</know_how_extraction>">>,
     <<Prose>>,
     <<"<know_how_extraction>", J_Truncated, "</know_how_extraction>">>,
     <<"<know_how_extraction>", J_EmptyObject, "</know_how_extraction>">>,
     <<"<know_how_extraction>", J_KnowHowTwoFields, "</know_how_extraction>">>,
     <<"<know_how_extraction>", J_EmptyArray, "</know_how_extraction>">>,
     <<"<know_how_extraction>", J_String, "</know_how_extraction>">>,
     <<"<know_how_extraction>", J_Null, "</know_how_extraction>">>}

\* what the provider may answer to the renderer's prompt
RendererResponses ==
    {<<H_Summary, Blank, "Look up an order.", Blank,
       H_Instructions, Blank, "1. Open the list.", "2. Copy the id.", Blank,
       H_KnowHow, Blank, "Check the status first.">>,
     <<Blank, H_Summary, "Look up an order.", Blank>>,
     <<"I cannot help with that.">>}

config == getConfig(env)

\* getOpenAIClient() / getAnthropicClient() returns a client: it exists
\* already, or the key to build it is set
clientAvailable ==
    IF config.provider = "claude"
    THEN anthropicClient \/ env.ANTHROPIC_API_KEY # Unset
    ELSE openaiClient \/ env.OPENAI_API_KEY # Unset

\* completeWithClaude / completeWithOpenAI is called for a model: the
\* client is built on first use
requestModel ==
    /\ openaiClient' = (openaiClient \/
                          (config.provider # "claude" /\ env.OPENAI_API_KEY # Unset))
    /\ anthropicClient' = (anthropicClient \/
                          (config.provider = "claude" /\ env.ANTHROPIC_API_KEY # Unset))

\* the ways the request in flight can fail: without a client the missing
\* key is the failure, with one the provider's reply is
failures == IF clientAvailable THEN FailureReplies ELSE {"missing_key"}

\* the message of the Error that completeWithClaude / completeWithOpenAI
\* throws for the failure f
attemptError(f) ==
    IF f = "missing_key"
    THEN missingKeyError(config.provider)
    ELSE IF config.provider = "claude"
         THEN completeWithClaude_Error(f)
         ELSE completeWithOpenAI_Error(f)

\* the request in flight got the reply r
replied(r) ==
    [tried EXCEPT ![Len(tried)] = [model |-> tried[Len(tried)].model, reply |-> r]]

request(model) == [model |-> model, reply |-> "pending"]

\* the last call of complete ends with `outcome`
endCall(outcome) ==
    [calls EXCEPT ![Len(calls)] = [stage |-> calls[Len(calls)].stage,
                                   outcome |-> outcome]]

\* generateDocumentation calls complete for stage s (after the calls in
\* cs): getConfig, errors = [], and the request of the first model
callComplete(s, cs) ==
    /\ stage' = s
    /\ calls' = Append(cs, [stage |-> s, outcome |-> "pending"])
    /\ errors' = <<>>
    /\ modelIdx' = 1
    /\ tried' = <<request(config.models[1])>>
    /\ requestModel
    /\ pc' = "awaiting"

\* an exception leaves generateDocumentation: nothing catches it
throwToCaller(e) ==
    /\ pc' = "failed"
    /\ thrown' = e

\* generateDocumentation without its short cut for the empty list
GenerateEmpty_CallsSegmenter ==
    /\ pc = "idle"
    /\ Len(actions) = 0
    /\ callComplete("segmenter", calls)
    /\ UNCHANGED <<actions, preChunks, sideVars, env, chunkerResponse, analyzerResponse,
                   generatorResponse, chunks, knowHow, result, thrown>>

\* generateDocumentation(task) with task.actions empty
GenerateEmpty ==
    /\ pc = "idle"
    /\ Len(actions) = 0
    /\ pc' = "done"
    /\ result' = [returned |-> TRUE] @@ createEmptyResult
    /\ UNCHANGED <<actions, preChunks, sideVars, env, openaiClient, anthropicClient, stage,
                   calls, modelIdx, errors, tried, chunkerResponse,
                   analyzerResponse, generatorResponse, chunks, knowHow, thrown>>

\* generateDocumentation that starts with the extractor
GenerateStart_ExtractorFirst ==
    /\ pc = "idle"
    /\ Len(actions) # 0
    /\ callComplete("extractor", calls)
    /\ UNCHANGED <<actions, preChunks, sideVars, env, chunkerResponse, analyzerResponse,
                   generatorResponse, chunks, knowHow, result, thrown>>

\* generateDocumentation(task) up to the segmenter's first request
GenerateStart ==
    /\ pc = "idle"
    /\ Len(actions) # 0
    /\ callComplete("segmenter", calls)
    /\ UNCHANGED <<actions, preChunks, sideVars, env, chunkerResponse, analyzerResponse,
                   generatorResponse, chunks, knowHow, result, thrown>>

\* complete that asks the failed model once more before it moves on
ModelFails_RetriesSame ==
    /\ pc = "awaiting"
    /\ modelIdx < Len(config.models)
    /\ \E f \in failures :
          /\ errors' = Append(errors, [model |-> config.models[modelIdx],
                                       error |-> attemptError(f)])
          /\ tried' = Append(replied(f),
                             request(config.models[IF Len(tried) % 2 = 1
                                                   THEN modelIdx
                                                   ELSE modelIdx + 1]))
    /\ modelIdx' = IF Len(tried) % 2 = 1 THEN modelIdx ELSE modelIdx + 1
    /\ requestModel
    /\ UNCHANGED <<actions, preChunks, sideVars, env, pc, stage, calls, chunkerResponse,
                   analyzerResponse, generatorResponse, chunks, knowHow,
                   result, thrown>>

\* complete: the request of a model fails and another model is left
ModelFails ==
    /\ pc = "awaiting"
    /\ modelIdx < Len(config.models)
    /\ \E f \in failures :
          /\ errors' = Append(errors, [model |-> config.models[modelIdx],
                                       error |-> attemptError(f)])
          /\ tried' = Append(replied(f), request(config.models[modelIdx + 1]))
    /\ modelIdx' = modelIdx + 1
    /\ requestModel
    /\ UNCHANGED <<actions, preChunks, sideVars, env, pc, stage, calls, chunkerResponse,
                   analyzerResponse, generatorResponse, chunks, knowHow,
                   result, thrown>>

\* generateDocumentation that catches the error of complete and returns
\* what it has
LastModelFails_Swallowed ==
    /\ pc = "awaiting"
    /\ modelIdx = Len(config.models)
    /\ \E f \in failures :
          /\ errors' = Append(errors, [model |-> config.models[modelIdx],
                                       error |-> attemptError(f)])
          /\ tried' = replied(f)
    /\ calls' = endCall("threw")
    /\ pc' = "done"
    /\ result' = [returned |-> TRUE] @@ createEmptyResult
    /\ UNCHANGED <<actions, preChunks, sideVars, env, openaiClient, anthropicClient, stage,
                   modelIdx, chunkerResponse, analyzerResponse, generatorResponse,
                   chunks, knowHow, thrown>>

\* complete: the request of the last model fails; complete throws the
\* aggregated error, which leaves generateDocumentation as it is
LastModelFails ==
    /\ pc = "awaiting"
    /\ modelIdx = Len(config.models)
    /\ \E f \in failures :
          /\ errors' = Append(errors, [model |-> config.models[modelIdx],
                                       error |-> attemptError(f)])
          /\ tried' = replied(f)
          /\ throwToCaller(allFailedError(config.provider, errors'))
    /\ calls' = endCall("threw")
    /\ UNCHANGED <<actions, preChunks, sideVars, env, openaiClient, anthropicClient, stage,
                   modelIdx, chunkerResponse, analyzerResponse, generatorResponse,
                   chunks, knowHow, result>>

\* the segmenter's call of complete returns a text
SegmenterReturns ==
    /\ pc = "awaiting"
    /\ stage = "segmenter"
    /\ clientAvailable
    /\ \E response \in SegmenterResponses :
          LET chunkerParsed == parseChunkerResponse(response)
              conv == convertChunks(chunkerParsed.chunks, actions)
          IN /\ chunkerResponse' = response
             /\ IF conv.threw
                THEN /\ throwToCaller(conv.error)
                     /\ calls' = endCall("returned")
                     /\ tried' = replied("text")
                     /\ UNCHANGED <<openaiClient, anthropicClient, stage, modelIdx,
                                    errors, chunks>>
                ELSE /\ chunks' = conv.chunks
                     /\ callComplete("extractor", endCall("returned"))
                     /\ UNCHANGED thrown
    /\ UNCHANGED <<actions, preChunks, sideVars, env, analyzerResponse, generatorResponse,
                   knowHow, result>>

\* the extractor's call of complete returns a text
ExtractorReturns ==
    /\ pc = "awaiting"
    /\ stage = "extractor"
    /\ clientAvailable
    /\ \E response \in ExtractorResponses :
          LET analyzerParsed == parseAnalyzerResponse(response)
              conv == convertKnowHow(analyzerParsed.knowHow)
          IN /\ analyzerResponse' = response
             /\ IF conv.threw
                THEN /\ throwToCaller(conv.error)
                     /\ calls' = endCall("returned")
                     /\ tried' = replied("text")
                     /\ UNCHANGED <<openaiClient, anthropicClient, stage, modelIdx,
                                    errors, knowHow>>
                ELSE /\ knowHow' = conv.knowHow
                     /\ callComplete("renderer", endCall("returned"))
                     /\ UNCHANGED thrown
    /\ UNCHANGED <<actions, preChunks, sideVars, env, chunkerResponse, generatorResponse,
                   chunks, result>>

\* the renderer's call of complete returns a text: the result is returned
RendererReturns ==
    /\ pc = "awaiting"
    /\ stage = "renderer"
    /\ clientAvailable
    /\ \E response \in RendererResponses :
          LET generatorParsed == parseGeneratorResponse(response)
          IN /\ generatorResponse' = response
             /\ result' = [returned |-> TRUE,
                           chunks |-> chunks,
                           metrics |-> calculateMetrics(actions),
                           knowHow |-> knowHow,
                           output |-> [summary |-> generatorParsed.summary,
                                       instructions |-> generatorParsed.instructions,
                                       knowHow |-> generatorParsed.knowHow,
                                       rawMarkdown |-> generatorParsed.rawMarkdown]]
    /\ pc' = "done"
    /\ calls' = endCall("returned")
    /\ tried' = replied("text")
    /\ UNCHANGED <<actions, preChunks, sideVars, env, openaiClient, anthropicClient, stage,
                   modelIdx, errors, chunkerResponse, analyzerResponse, chunks,
                   knowHow, thrown>>

Init ==
    /\ \E n \in 0..MaxTaskActions : actions = TaskActions(n)
    /\ preChunks = [called |-> FALSE, chunks |-> <<>>]
    /\ env \in Environments
    /\ PipelineIdle
    /\ SideIdle

Next ==
    \/ GenerateEmpty
    \/ GenerateStart
    \/ ModelFails
    \/ LastModelFails
    \/ SegmenterReturns
    \/ ExtractorReturns
    \/ RendererReturns

Spec == Init /\ [][Next]_vars

---------------------------------------------------------------------------
(* The renderer's parser applied to a response text, and to a document     *)
(* built of three section texts under the three headings.                  *)

\* longest response handed to parseGeneratorResponse, in lines
MaxResponseLines == 5

\* longest section text of a built document, in lines
MaxSectionLines == 1

L_Body == "Open the list."
L_Other == "Copy the id."

ResponseLines ==
    {H_Summary, H_Instructions, H_KnowHow, L_SubSummary, L_InstructionsLong,
     Blank, L_Body}

SectionLines ==
    {H_Summary, H_Instructions, H_KnowHow, L_InstructionsLong, Blank, L_Body,
     L_Other}

\* a text of at least one line: the empty string is the one line Blank
Texts(S, n) == SeqsUpTo(S, n) \ {<<>>}

\* the document with each heading on a line of its own and the section
\* text on the lines after it
buildMarkdown(texts) ==
    <<H_Summary>> \o texts[1] \o <<H_Instructions>> \o texts[2]
        \o <<H_KnowHow>> \o texts[3]

InitRender ==
    /\ \/ /\ generatorResponse \in SeqsUpTo(ResponseLines, MaxResponseLines)
          /\ sectionTexts = <<>>
       \/ \E s \in Texts(SectionLines, MaxSectionLines),
             i \in Texts(SectionLines, MaxSectionLines),
             k \in Texts(SectionLines, MaxSectionLines) :
              /\ sectionTexts = <<s, i, k>>
              /\ generatorResponse = buildMarkdown(sectionTexts)
    /\ sections = [called |-> FALSE]
    /\ actions = <<>>
    /\ CaptureIdle
    /\ StoreIdle
    /\ preChunks = [called |-> FALSE, chunks |-> <<>>]
    /\ env \in {e \in Environments : e.LLM_PROVIDER = Unset /\ e.OPENAI_MODEL = Unset
                                      /\ e.OPENAI_API_KEY # Unset}
    /\ openaiClient = FALSE
    /\ anthropicClient = FALSE
    /\ pc = "idle"
    /\ stage = "none"
    /\ calls = <<>>
    /\ modelIdx = 0
    /\ errors = <<>>
    /\ tried = <<>>
    /\ chunkerResponse = <<>>
    /\ analyzerResponse = <<>>
    /\ chunks = <<>>
    /\ knowHow = JUndefined
    /\ result = [returned |-> FALSE]
    /\ thrown = NoError
    /\ taskMetrics = [called |-> FALSE]
    /\ task = NoTask

ParseResponse ==
    /\ ~sections.called
    /\ sections' = [called |-> TRUE, value |-> parseGeneratorResponse(generatorResponse)]
    /\ UNCHANGED <<actions, preChunks, pipelineVars, storeVars, captureVars, taskMetrics, sectionTexts, task>>

NextRender == ParseResponse

SpecRender == InitRender /\ [][NextRender]_vars

---------------------------------------------------------------------------
(* routes/tasks.ts and routes/webhook.ts: one stored task from its         *)
(* creation, through stop, to the clarification regenerations.  The        *)
(* handlers run one at a time; generateDocumentation and complete are      *)
(* taken by their outcome (a value or a throw).                            *)

\* task.output is not set
NoOutput == [defined |-> FALSE]

\* POST /tasks: the task as first stored
newTask ==
    [status |-> "recording", output |-> NoOutput, error |-> Unset,
     clarificationTranscript |-> <<>>]

T_Question == "Anything to add?"
T_Answer == "Use the newest order."

\* the transcript of a POST /tasks/:id/clarification body
RouteTranscripts == {<<>>, <<Space>>, <<T_Answer>>}

\* the payload of a webhook call, as far as the handler reads it
WebhookPayloads ==
    [type : {"post_call_transcription", "post_call_audio"},
     status : {"done", "failed"},
     transcript : {<<>>,
                   <<[role |-> "user", message |-> T_Answer]>>,
                   <<[role |-> "agent", message |-> T_Question],
                     [role |-> "user", message |-> T_Answer]>>}]

\* transcript.map(t => `**${...}:** ${t.message}`).join('\n\n')
RECURSIVE formatTranscript(_)
formatTranscript(transcript) ==
    IF transcript = <<>>
    THEN <<>>
    ELSE LET t == Head(transcript)
             line == <<IF t.role = "agent" THEN "**Agente:** " ELSE "**Usuario:** ",
                       t.message>>
         IN IF Len(transcript) = 1
            THEN line
            ELSE line \o <<Space, Space>> \o formatTranscript(Tail(transcript))

\* what the provider may answer to the regeneration prompt
EnhancedReplies ==
    {<<H_Summary, Blank, "Look up the newest order.", Blank,
       H_Instructions, Blank, "1. Open the list.", "2. Sort by date.", Blank,
       H_KnowHow, Blank, "Check the status first.">>,
     <<Blank, H_Summary, "Look up the newest order.", Blank>>,
     <<H_Summary, Blank, "Look up an order.", Blank,
       H_Instructions, Blank, "1. Open the list.", "2. Copy the id.", Blank,
       H_KnowHow, Blank, "Check the status first.">>,
     <<H_Instructions, "1. Sort by date.">>,
     <<"Everything is correct.">>}

\* regenerateWithClarifications: what it returns for the provider's answer
regenerateWithClarifications(reply) == trimLines(reply)

\* the messages generateDocumentation may reject with
PipelineErrors == {"All openai models failed"}

\* the output of the GenerationResult generateDocumentation may resolve with
GeneratedOutputs ==
    IF Len(actions) = 0
    THEN {createEmptyResult.output}
    ELSE {parseGeneratorResponse(response) : response \in RendererResponses}

\* task.output?.rawMarkdown is truthy
hasRawMarkdown(t) == t.output.defined /\ t.output.rawMarkdown # <<>>

\* POST /tasks/:id/stop up to the call of generateDocumentation; a task that
\* is not recording is rejected unchanged
StopStart ==
    /\ task.status = "recording"
    /\ task' = [task EXCEPT !.status = "processing"]
    /\ UNCHANGED <<actions, preChunks, pipelineVars, storeVars, captureVars, taskMetrics, sectionTexts, sections>>

\* POST /tasks/:id/stop from the outcome of generateDocumentation on
StopFinish ==
    /\ task.status = "processing"
    /\ \/ \E output \in GeneratedOutputs :
              task' = [task EXCEPT
                          !.status = "completed",
                          !.output = [defined |-> TRUE,
                                      summary |-> output.summary,
                                      instructions |-> output.instructions,
                                      knowHow |-> output.knowHow,
                                      rawMarkdown |-> output.rawMarkdown]]
       \/ /\ Len(actions) # 0
          /\ \E message \in PipelineErrors :
                 task' = [task EXCEPT !.status = "error", !.error = message]
    /\ UNCHANGED <<actions, preChunks, pipelineVars, storeVars, captureVars, taskMetrics, sectionTexts, sections>>

\* POST /tasks/:id/clarification; a task without rawMarkdown is rejected
PostClarification ==
    /\ hasRawMarkdown(task)
    /\ \E transcript \in RouteTranscripts :
          IF transcript = <<>> \/ trim(transcript) = <<>>
          THEN UNCHANGED task
          ELSE \/ \E reply \in EnhancedReplies :
                     task' = [task EXCEPT
                                 !.output.rawMarkdown = regenerateWithClarifications(reply),
                                 !.clarificationTranscript = transcript]
               \/ UNCHANGED task
    /\ UNCHANGED <<actions, preChunks, pipelineVars, storeVars, captureVars, taskMetrics, sectionTexts, sections>>

\* POST /webhook/elevenlabs with a valid signature and a task id that
\* resolves to the stored task
WebhookClarification ==
    /\ \E payload \in WebhookPayloads :
          IF payload.type # "post_call_transcription" \/ payload.status # "done"
             \/ ~hasRawMarkdown(task)
          THEN UNCHANGED task
          ELSE LET formattedTranscript == formatTranscript(payload.transcript)
               IN \/ \E reply \in EnhancedReplies :
                        task' = [task EXCEPT
                                    !.output.rawMarkdown = regenerateWithClarifications(reply),
                                    !.clarificationTranscript = formattedTranscript]
                  \/ UNCHANGED task
    /\ UNCHANGED <<actions, preChunks, pipelineVars, storeVars, captureVars, taskMetrics, sectionTexts, sections>>

InitTask ==
    /\ \E n \in 0..MaxTaskActions : actions = TaskActions(n)
    /\ task = newTask
    /\ CaptureIdle
    /\ StoreIdle
    /\ preChunks = [called |-> FALSE, chunks |-> <<>>]
    /\ env \in {e \in Environments : e.LLM_PROVIDER = Unset /\ e.OPENAI_MODEL = Unset
                                      /\ e.OPENAI_API_KEY # Unset}
    /\ PipelineIdle
    /\ taskMetrics = [called |-> FALSE]
    /\ sectionTexts = <<>>
    /\ sections = [called |-> FALSE]

NextTask ==
    \/ StopStart
    \/ StopFinish
    \/ PostClarification
    \/ WebhookClarification

SpecTask == InitTask /\ [][NextTask]_vars

---------------------------------------------------------------------------
(* background/index.ts: one recording in the extension's background        *)
(* worker, from startRecording to the end of stopRecording, with the       *)
(* backend's POST /tasks/:id/actions and POST /tasks/:id/stop.  Every      *)
(* await of the worker is a step of its own; a request in flight reaches   *)
(* the backend, and its answer the worker, at any later step.              *)

\* number of actions captured in a recording
MaxCaptured == 3

\* number of calls of flushActions that take a batch
MaxFlushes == 3

\* the k-th action the content script captures
capturedAction(k) == TaskActions(k)[k]

\* a filter that lets every action pass
validActions_All(batch) == batch

\* actions.filter(action => action.type && action.timestamp && action.url)
validActions(batch) ==
    SelectSeq(batch, LAMBDA a : a.type # Unset /\ a.timestamp # 0 /\ a.url # Unset)

\* flushActions past its first line: the queue is taken and the request of
\* sendActions is in flight
startFlush(from) ==
    /\ flushes' = Append(flushes, [from |-> from,
                                    actionsToSend |-> state.actions,
                                    server |-> "none",
                                    outcome |-> "pending"])
    /\ state' = [state EXCEPT !.actions = <<>>]

\* onMessage ACTION_CAPTURED
ActionCaptured ==
    /\ state.isRecording
    /\ stopPc \in {"idle", "notifying"}
    /\ state.actionCount < MaxCaptured
    /\ state' = [state EXCEPT
                    !.actions = Append(@, capturedAction(state.actionCount + 1)),
                    !.actionCount = @ + 1]
    /\ UNCHANGED <<actions, preChunks, pipelineVars, storeVars, taskMetrics, sectionTexts,
                   sections, task, batchInterval, stopPc, flushes>>

\* the interval calls flushActions and the queue is not empty
IntervalFlush ==
    /\ batchInterval
    /\ state.actions # <<>>
    /\ Len(flushes) < MaxFlushes
    /\ startFlush("interval")
    /\ UNCHANGED <<actions, preChunks, pipelineVars, storeVars, taskMetrics, sectionTexts,
                   sections, task, batchInterval, stopPc>>

\* stopRecording up to its first await: the interval is cleared
StopRecording ==
    /\ stopPc = "idle"
    /\ state.isRecording
    /\ batchInterval' = FALSE
    /\ stopPc' = "notifying"
    /\ UNCHANGED <<actions, preChunks, pipelineVars, storeVars, taskMetrics, sectionTexts,
                   sections, task, state, flushes>>

\* stopRecording: the tabs are notified and flushActions is called
StopFlush ==
    /\ stopPc = "notifying"
    /\ IF state.actions = <<>>
       THEN /\ stopPc' = "flushed"
            /\ UNCHANGED <<state, flushes>>
       ELSE /\ Len(flushes) < MaxFlushes
            /\ startFlush("stop")
            /\ stopPc' = "flushing"
    /\ UNCHANGED <<actions, preChunks, pipelineVars, storeVars, taskMetrics, sectionTexts,
                   sections, task, batchInterval>>

\* POST /tasks/:id/actions handles the request of flush f
AddActions ==
    /\ \E f \in 1..Len(flushes) :
          /\ flushes[f].outcome = "pending"
          /\ flushes[f].server = "none"
          /\ IF task.status = "recording"
             THEN /\ actions' = actions \o validActions(flushes[f].actionsToSend)
                  /\ flushes' = [flushes EXCEPT ![f].server = "appended"]
             ELSE /\ flushes' = [flushes EXCEPT ![f].server = "rejected"]
                  /\ UNCHANGED actions
    /\ UNCHANGED <<preChunks, pipelineVars, storeVars, taskMetrics, sectionTexts, sections,
                   task, state, batchInterval, stopPc>>

\* flushActions: sendActions returned
FlushSucceeds ==
    /\ \E f \in 1..Len(flushes) :
          /\ flushes[f].outcome = "pending"
          /\ flushes[f].server = "appended"
          /\ flushes' = [flushes EXCEPT ![f].outcome = "resolved"]
          /\ stopPc' = IF flushes[f].from = "stop" THEN "flushed" ELSE stopPc
    /\ UNCHANGED <<actions, preChunks, pipelineVars, storeVars, taskMetrics, sectionTexts,
                   sections, task, state, batchInterval>>

\* flushActions: sendActions threw (the request or its answer was lost, or
\* the answer was not ok) and the batch is put back in front of the queue
FlushFails ==
    /\ \E f \in 1..Len(flushes) :
          /\ flushes[f].outcome = "pending"
          /\ flushes' = [flushes EXCEPT ![f].outcome = "rejected"]
          /\ state' = [state EXCEPT !.actions = flushes[f].actionsToSend \o @]
          /\ stopPc' = IF flushes[f].from = "stop" THEN "flushed" ELSE stopPc
    /\ UNCHANGED <<actions, preChunks, pipelineVars, storeVars, taskMetrics, sectionTexts,
                   sections, task, batchInterval>>

\* stopRecording: stopTask's request reaches POST /tasks/:id/stop
StopTaskRequest ==
    /\ stopPc = "flushed"
    /\ stopPc' = "stopping"
    /\ task' = [task EXCEPT !.status = "processing"]
    /\ UNCHANGED <<actions, preChunks, pipelineVars, storeVars, taskMetrics, sectionTexts,
                   sections, state, batchInterval, flushes>>

\* stopRecording: stopTask returned or threw
StopTaskReturns ==
    /\ stopPc = "stopping"
    /\ stopPc' = "done"
    /\ state' = [state EXCEPT !.isRecording = FALSE]
    /\ \E status \in {"completed", "error"} : task' = [task EXCEPT !.status = status]
    /\ UNCHANGED <<actions, preChunks, pipelineVars, storeVars, taskMetrics, sectionTexts,
                   sections, batchInterval, flushes>>

\* the state startRecording leaves: the task is created and the interval set
InitCapture ==
    /\ state = [isRecording |-> TRUE, actions |-> <<>>, actionCount |-> 0]
    /\ batchInterval = TRUE
    /\ stopPc = "idle"
    /\ flushes = <<>>
    /\ StoreIdle
    /\ actions = <<>>
    /\ task = newTask
    /\ preChunks = [called |-> FALSE, chunks |-> <<>>]
    /\ env \in {e \in Environments : e.LLM_PROVIDER = Unset /\ e.OPENAI_MODEL = Unset
                                      /\ e.OPENAI_API_KEY # Unset}
    /\ PipelineIdle
    /\ taskMetrics = [called |-> FALSE]
    /\ sectionTexts = <<>>
    /\ sections = [called |-> FALSE]

NextCapture ==
    \/ ActionCaptured
    \/ IntervalFlush
    \/ StopRecording
    \/ StopFlush
    \/ AddActions
    \/ FlushSucceeds
    \/ FlushFails
    \/ StopTaskRequest
    \/ StopTaskReturns

SpecCapture == InitCapture /\ [][NextCapture]_vars

----------------------------------------------------------------------------
(* routes/tasks.ts over store/index.ts: the handlers of several requests   *)
(* on one task, each running from one await to the next.  With the KV      *)
(* store getTask returns a copy and setTask writes a copy, each after a    *)
(* request to the KV service.  With the in-memory store getTask returns    *)
(* the stored object itself, so what a handler assigns to its task is in   *)
(* the store at once, and getTask and setTask await promises that are      *)
(* settled already: a handler runs on without another request's handler    *)
(* in between until it awaits generateDocumentation or replies.            *)

\* the id of the task POST /tasks created, and an id the store does not hold
TaskId == "task-1"
OtherId == "task-2"

\* POST /tasks: the TaskSession as first stored; chunks, metrics,
\* knowHowExtraction and output name the call of generateDocumentation
\* they come from, 0 while they are not set
createdTask ==
    [status |-> "recording", actions |-> <<>>, chunks |-> 0, metrics |-> 0,
     knowHowExtraction |-> 0, output |-> 0, error |-> Unset]

\* an action the content script left without a url
actionWithoutUrl == [capturedAction(4) EXCEPT !.url = Unset]

\* the requests that reach the routes
RouteRequests ==
    << [route |-> "actions", id |-> TaskId, body |-> <<capturedAction(1)>>],
       [route |-> "actions", id |-> TaskId,
        body |-> <<capturedAction(2), actionWithoutUrl, capturedAction(3)>>],
       [route |-> "stop", id |-> TaskId, body |-> <<>>],
       [route |-> "stop", id |-> TaskId, body |-> <<>>],
       [route |-> "actions", id |-> OtherId, body |-> <<capturedAction(1)>>] >>

\* no reply yet
NoResponse == [kind |-> "none"]

\* the message of the error generateDocumentation rejects with
GenerationError == "All models failed"

\* store.get(id)
storeGet(id) == IF id = TaskId THEN stored ELSE NoTask

\* the task object of handler h: the stored object itself with the
\* in-memory store, the handler's copy with the KV store
taskOf(h) == IF storeKind = "memory" THEN stored ELSE handlers[h].task

\* the store holds the task t from now on
storeHolds(t) ==
    /\ stored' = t
    /\ statusLog' = IF t.status # stored.status
                    THEN Append(statusLog, t.status)
                    ELSE statusLog

\* handler h assigned to its task, which is t now, and goes on to pc
assignTask(h, t, pc2) ==
    IF storeKind = "memory"
    THEN /\ storeHolds(t)
         /\ handlers' = [handlers EXCEPT ![h].pc = pc2,
                                         ![h].read = IF handlers[h].pc = "new"
                                                     THEN stored ELSE @,
                                         ![h].written = Append(@, t)]
    ELSE /\ handlers' = [handlers EXCEPT ![h].pc = pc2, ![h].task = t,
                                         ![h].read = IF handlers[h].pc = "new"
                                                     THEN stored ELSE @]
         /\ UNCHANGED <<stored, statusLog>>

\* setTask(id, task) of handler h has written, and the handler goes on to pc
setTask(h, pc2, response) ==
    /\ storeHolds(taskOf(h))
    /\ handlers' = [handlers EXCEPT ![h].pc = pc2, ![h].response = response,
                       ![h].written = IF storeKind = "memory"
                                      THEN @ ELSE Append(@, handlers[h].task)]

\* the handler throws before it changes anything
reject(h, kind) ==
    /\ handlers' = [handlers EXCEPT ![h].pc = "done",
                                    ![h].read = storeGet(RouteRequests[h].id),
                                    ![h].response = [kind |-> kind]]
    /\ UNCHANGED <<stored, statusLog>>

\* the checks both routes make on the task getTask returned
checkFails(h) ==
    LET got == storeGet(RouteRequests[h].id)
    IN IF got = NoTask THEN "not_found"
       ELSE IF got.status # "recording" THEN "not_recording"
       ELSE "none"

\* the reply of POST /:id/actions for the task as the handler holds it
actionsReply(h, t) ==
    [kind |-> "ok",
     received |-> Len(validActions(RouteRequests[h].body)),
     total |-> Len(t.actions)]

\* POST /:id/actions from getTask's answer to the call of setTask (KV
\* store) or to the reply (in-memory store)
ActionsGet ==
    /\ \E h \in DOMAIN handlers :
          /\ RouteRequests[h].route = "actions"
          /\ handlers[h].pc = "new"
          /\ LET pushed == [stored EXCEPT !.actions =
                               @ \o validActions(RouteRequests[h].body)]
             IN IF checkFails(h) # "none"
                THEN reject(h, checkFails(h))
                ELSE IF storeKind = "memory"
                THEN /\ storeHolds(pushed)
                     /\ handlers' = [handlers EXCEPT
                                        ![h].pc = "done",
                                        ![h].read = stored,
                                        ![h].written = <<pushed>>,
                                        ![h].response = actionsReply(h, pushed)]
                ELSE assignTask(h, pushed, "setting")
    /\ UNCHANGED <<actions, preChunks, pipelineVars, taskMetrics, sectionTexts,
                   sections, task, captureVars, storeKind, generations>>

\* POST /:id/actions from setTask's return to the reply (KV store)
ActionsSet ==
    /\ \E h \in DOMAIN handlers :
          /\ RouteRequests[h].route = "actions"
          /\ handlers[h].pc = "setting"
          /\ setTask(h, "done", actionsReply(h, taskOf(h)))
    /\ UNCHANGED <<actions, preChunks, pipelineVars, taskMetrics, sectionTexts,
                   sections, task, captureVars, storeKind, generations>>

\* POST /:id/stop from getTask's answer to the first call of setTask (KV
\* store) or to the call of generateDocumentation (in-memory store)
StopGet ==
    /\ \E h \in DOMAIN handlers :
          /\ RouteRequests[h].route = "stop"
          /\ handlers[h].pc = "new"
          /\ LET processing == [stored EXCEPT !.status = "processing"]
             IN IF checkFails(h) # "none"
                THEN reject(h, checkFails(h)) /\ UNCHANGED generations
                ELSE IF storeKind = "memory"
                THEN /\ assignTask(h, processing, "generating")
                     /\ generations' = Append(generations,
                                          [handler |-> h,
                                           actions |-> processing.actions])
                ELSE assignTask(h, processing, "setting") /\ UNCHANGED generations
    /\ UNCHANGED <<actions, preChunks, pipelineVars, taskMetrics, sectionTexts,
                   sections, task, captureVars, storeKind>>

\* POST /:id/stop from the first setTask's return to the call of
\* generateDocumentation (KV store)
StopGenerate ==
    /\ \E h \in DOMAIN handlers :
          /\ RouteRequests[h].route = "stop"
          /\ handlers[h].pc = "setting"
          /\ setTask(h, "generating", NoResponse)
          /\ generations' = Append(generations,
                                   [handler |-> h, actions |-> taskOf(h).actions])
    /\ UNCHANGED <<actions, preChunks, pipelineVars, taskMetrics, sectionTexts,
                   sections, task, captureVars, storeKind>>

\* POST /:id/stop: generateDocumentation resolved
StopResolves ==
    /\ \E h \in DOMAIN handlers :
          /\ handlers[h].pc = "generating"
          /\ assignTask(h, [taskOf(h) EXCEPT !.status = "completed",
                                             !.chunks = h,
                                             !.metrics = h,
                                             !.knowHowExtraction = h,
                                             !.output = h],
                        "saving")
    /\ UNCHANGED <<actions, preChunks, pipelineVars, taskMetrics, sectionTexts,
                   sections, task, captureVars, storeKind, generations>>

\* a catch block that runs after the result was assigned to the task
StopRejects_KeepsResult ==
    /\ \E h \in DOMAIN handlers :
          /\ handlers[h].pc = "generating"
          /\ assignTask(h, [taskOf(h) EXCEPT !.status = "error",
                                             !.error = GenerationError,
                                             !.chunks = h,
                                             !.metrics = h],
                        "saving")
    /\ UNCHANGED <<actions, preChunks, pipelineVars, taskMetrics, sectionTexts,
                   sections, task, captureVars, storeKind, generations>>

\* POST /:id/stop: generateDocumentation rejected, the catch block runs
StopRejects ==
    /\ \E h \in DOMAIN handlers :
          /\ handlers[h].pc = "generating"
          /\ assignTask(h, [taskOf(h) EXCEPT !.status = "error",
                                             !.error = GenerationError],
                        "saving")
    /\ UNCHANGED <<actions, preChunks, pipelineVars, taskMetrics, sectionTexts,
                   sections, task, captureVars, storeKind, generations>>

\* POST /:id/stop from the last setTask's return to the reply
StopReplies ==
    /\ \E h \in DOMAIN handlers :
          /\ handlers[h].pc = "saving"
          /\ setTask(h, "done", [kind |-> taskOf(h).status])
    /\ UNCHANGED <<actions, preChunks, pipelineVars, taskMetrics, sectionTexts,
                   sections, task, captureVars, storeKind, generations>>

\* POST /tasks has stored the task, and the requests are on their way
InitStore ==
    /\ storeKind \in {"memory", "kv"}
    /\ stored = createdTask
    /\ handlers = [h \in DOMAIN RouteRequests |->
                      [pc |-> "new", read |-> NoTask, task |-> NoTask,
                       written |-> <<>>, response |-> NoResponse]]
    /\ statusLog = <<"recording">>
    /\ generations = <<>>
    /\ actions = <<>>
    /\ task = NoTask
    /\ CaptureIdle
    /\ preChunks = [called |-> FALSE, chunks |-> <<>>]
    /\ env \in {e \in Environments : e.LLM_PROVIDER = Unset /\ e.OPENAI_MODEL = Unset
                                      /\ e.OPENAI_API_KEY # Unset}
    /\ PipelineIdle
    /\ taskMetrics = [called |-> FALSE]
    /\ sectionTexts = <<>>
    /\ sections = [called |-> FALSE]

NextStore ==
    \/ ActionsGet
    \/ ActionsSet
    \/ StopGet
    \/ StopGenerate
    \/ StopResolves
    \/ StopRejects
    \/ StopReplies

SpecStore == InitStore /\ [][NextStore]_vars

---------------------------------------------------------------------------
(* Claims about the pipeline orchestrator and the generation client.       *)

callStages == [k \in 1..Len(calls) |-> calls[k].stage]

lastCall == calls[Len(calls)]

\* complete threw out of the running stage
completeThrew == Len(calls) > 0 /\ lastCall.outcome = "threw"

\* C2: for a non-empty action list the three stages run strictly one after
\* the other in the order segmenter, extractor, renderer: each stage calls
\* complete exactly once, a stage's call is issued only after the call of
\* the stage before it has returned, and a successful run has issued
\* exactly three calls.
C2_StagesSequential ==
    /\ \E n \in 0..Len(Stages) : callStages = SubSeq(Stages, 1, n)
    /\ \A k \in 1..(Len(calls) - 1) : calls[k].outcome = "returned"
    /\ pc = "awaiting" => (Len(calls) > 0 /\ lastCall.outcome = "pending"
                           /\ lastCall.stage = stage)
    /\ (pc = "done" /\ Len(actions) # 0) =>
          /\ callStages = Stages
          /\ \A k \in 1..Len(calls) : calls[k].outcome = "returned"

\* a run over a non-empty list has returned a result
C2_Witness == pc = "done" /\ Len(actions) # 0 /\ Len(calls) = 3

\* C3: if the generation call of a stage throws, generateDocumentation
\* aborts at once: the caller has an error and no result, the failing call
\* is the last call ever issued (the stage is not invoked again, no later
\* stage is called), and nothing happens afterwards.
C3_AbortOnThrow ==
    /\ [](\A k \in 1..Len(calls) : calls[k].outcome = "threw" =>
              /\ k = Len(calls)
              /\ pc = "failed"
              /\ thrown.name = "Error"
              /\ ~result.returned)
    /\ [][completeThrew =>
              (calls' = calls /\ tried' = tried /\ result' = result
               /\ thrown' = thrown /\ pc' = pc)]_vars

\* the extractor's call threw after the segmenter's had returned
C3_Witness ==
    /\ completeThrew
    /\ lastCall.stage = "extractor"
    /\ pc = "failed"

\* the names a stage goes by: the specification's and the source's
stageNames(s) ==
    CASE s = "segmenter" -> {"segmenter", "Segmenter", "chunker", "Chunker"}
      [] s = "extractor" -> {"extractor", "Extractor", "analyzer", "Analyzer"}
      [] s = "renderer" -> {"renderer", "Renderer", "generator", "Generator"}

messageParts(e) == {e.message[k] : k \in 1..Len(e.message)}

\* C4: when the generation call of a stage throws, the error that
\* generateDocumentation rethrows carries the name of the failing stage
\* together with the root-cause message.
C4_ErrorNamesStage ==
    completeThrew =>
        /\ messageParts(thrown) \cap stageNames(lastCall.stage) # {}
        /\ \A k \in 1..Len(errors) :
              messageParts([message |-> errors[k].error]) \subseteq messageParts(thrown)

\* C5: for an empty action list generateDocumentation returns the fixed
\* empty result (no chunks, zeroed metrics, six empty know-how lists, the
\* boilerplate markdown) and issues no generation call.
C5_EmptyShortCircuit ==
    (Len(actions) = 0 /\ pc # "idle") =>
        /\ pc = "done"
        /\ calls = <<>>
        /\ tried = <<>>
        /\ result.returned
        /\ result.chunks = <<>>
        /\ result.metrics.totalActions = 0
        /\ result.metrics.totalDurationMs = 0
        /\ result.metrics.urlChanges = 0
        /\ \A f \in {"longPauses", "backForthPatterns", "repeatedActions",
                     "extractionActions", "uniqueDomains"} :
              result.metrics[f] = <<>>
        /\ DOMAIN result.knowHow =
              {"decisionCriteria", "successSignals", "failureSignals",
               "criticalFields", "cornerCases", "expertShortcuts"}
        /\ \A f \in DOMAIN result.knowHow : result.knowHow[f] = JArr(<<>>)
        /\ result.output.summary = <<"No actions were recorded.">>
        /\ result.output.instructions = <<"No steps to document.">>
        /\ result.output.knowHow = <<"No know-how extracted.">>
        /\ result.output.rawMarkdown =
              <<"# Summary", "", "No actions were recorded.", "",
                "# Instructions", "", "No steps to document.", "",
                "# Know-How", "", "No know-how extracted.">>

\* the empty list has been processed
C5_Witness == Len(actions) = 0 /\ pc = "done"

triedModels == [k \in 1..Len(tried) |-> tried[k].model]

\* C6: complete attempts the models of its list one at a time in list
\* order, each at most once; when a model throws the next one is tried;
\* the first success ends the call and no later model is attempted.
C6_FallbackOrder ==
    /\ [](/\ triedModels = SubSeq(config.models, 1, Len(tried))
          /\ \A j, k \in 1..Len(tried) : j # k => tried[j].model # tried[k].model
          /\ \A k \in 1..(Len(tried) - 1) : tried[k].reply \in failures
          /\ \A k \in 1..Len(tried) :
                tried[k].reply = "pending" => (k = Len(tried) /\ pc = "awaiting"))
    /\ [][(Len(tried') > 0 /\ tried'[Len(tried')].reply = "text" /\ tried' # tried)
              => (calls'[Len(calls')].outcome = "returned" /\ Len(tried') = Len(tried))]_vars
    /\ [][(Len(tried) > 0 /\ tried[Len(tried)].reply = "text") => tried' = tried]_vars

\* the renderer's call succeeded on its third model
C6_Witness ==
    /\ pc = "done"
    /\ Len(tried) = 3
    /\ tried[3].reply = "text"

\* the aggregated message, written out for the requests in `log`
RECURSIVE C7_Listing(_)
C7_Listing(log) ==
    IF log = <<>>
    THEN <<>>
    ELSE (IF Len(log) = 1 THEN <<>> ELSE C7_Listing(SubSeq(log, 1, Len(log) - 1)) \o <<"\n  ">>)
         \o <<log[Len(log)].model, ": ">> \o attemptError(log[Len(log)].reply)

\* C7: if every model of the list throws, complete throws one aggregated
\* error whose message lists every attempted model in attempt order, each
\* with its own failure message; it never throws before every model of the
\* list has been attempted.
C7_AggregatedError ==
    completeThrew =>
        /\ triedModels = config.models
        /\ \A k \in 1..Len(tried) : tried[k].reply \in failures
        /\ thrown.name = "Error"
        /\ thrown.message =
              <<"All ", config.provider, " models failed:\n  ">> \o C7_Listing(tried)
        /\ Cardinality({k \in 1..Len(calls) : calls[k].outcome = "threw"}) = 1

\* all six models of a list with a preferred model outside the chain
\* failed, in different ways
C7_Witness ==
    /\ completeThrew
    /\ Len(tried) = 6
    /\ tried[1].reply = "api_error"
    /\ tried[6].reply = "no_content"

\* the response has a <chunks> block
hasChunksBlock(response) == matchBlock(response, "<chunks>", "</chunks>").matched

\* the text of the response's <chunks> block, as JSON.parse reads it
chunksBlockJson(response) ==
    parseTokens(trim(matchBlock(response, "<chunks>", "</chunks>").group))

segmenterReturned == Len(calls) > 0 /\ calls[1].outcome = "returned"

\* the segmenter stage itself threw (after its call had returned)
segmenterStageThrew == pc = "failed" /\ stage = "segmenter" /\ ~completeThrew

\* C8: if the segmenter's response has no parseable <chunks> block (absent,
\* or not valid JSON), generateDocumentation does not throw on it: it goes
\* on to the extractor with chunks = [], and the result it returns has an
\* empty chunk list.
C8_UnparseableChunks ==
    (segmenterReturned
     /\ (~hasChunksBlock(chunkerResponse) \/ ~chunksBlockJson(chunkerResponse).ok)) =>
        /\ ~segmenterStageThrew
        /\ chunks = <<>>
        /\ Len(calls) >= 2
        /\ calls[2].stage = "extractor"
        /\ pc = "done" => (result.returned /\ result.chunks = <<>>)

\* a run whose segmenter answered with a broken block has returned its result
C8_Witness ==
    /\ pc = "done"
    /\ Len(actions) # 0
    /\ hasChunksBlock(chunkerResponse)
    /\ ~chunksBlockJson(chunkerResponse).ok

\* v is an array of objects that have the fields of a chunk
isChunkArray(v) ==
    /\ v.t = "array"
    /\ \A k \in 1..Len(v.items) :
          /\ v.items[k].t = "object"
          /\ {"phase", "startIndex", "endIndex", "patterns", "inferredIntent"}
                \subseteq DOMAIN v.items[k].fields

\* C9: if the <chunks> block parses as JSON but is structurally malformed
\* (not an array of objects with the chunk fields), the stage yields an
\* empty chunk list and generateDocumentation still completes.
C9_MalformedChunksDegrade ==
    (segmenterReturned
     /\ hasChunksBlock(chunkerResponse)
     /\ chunksBlockJson(chunkerResponse).ok
     /\ ~isChunkArray(chunksBlockJson(chunkerResponse).value)) =>
        /\ ~segmenterStageThrew
        /\ chunks = <<>>

KnowHowFields ==
    {"decisionCriteria", "successSignals", "failureSignals",
     "criticalFields", "cornerCases", "expertShortcuts"}

KnowHowJsonFields ==
    {"decision_criteria", "success_signals", "failure_signals",
     "critical_fields", "corner_cases", "expert_shortcuts"}

extractorReturned == Len(calls) > 1 /\ calls[2].outcome = "returned"

\* the response's <know_how_extraction> block, as JSON.parse reads it
knowHowBlock(response) ==
    matchBlock(response, "<know_how_extraction>", "</know_how_extraction>")

knowHowBlockJson(response) == parseTokens(trim(knowHowBlock(response).group))

\* v is an object with the six lists
isKnowHowObject(v) ==
    /\ v.t = "object"
    /\ KnowHowJsonFields \subseteq DOMAIN v.fields
    /\ \A f \in KnowHowJsonFields : v.fields[f].t = "array"

\* C10: whenever the extractor's generation call succeeds, whatever the
\* text, the pipeline continues and knowHow is well-typed: its six fields
\* are lists, all empty when the block is absent, not valid JSON or
\* structurally malformed.
C10_KnowHowWellTyped ==
    extractorReturned =>
        /\ ~(pc = "failed" /\ stage = "extractor")
        /\ DOMAIN knowHow = KnowHowFields
        /\ \A f \in KnowHowFields : knowHow[f].t = "array"
        /\ (\/ ~knowHowBlock(analyzerResponse).matched
            \/ ~knowHowBlockJson(analyzerResponse).ok
            \/ ~isKnowHowObject(knowHowBlockJson(analyzerResponse).value)) =>
              \A f \in KnowHowFields : knowHow[f] = JArr(<<>>)

\* the JavaScript value v is the number n
isNumber(v, n) == v.t = "number" /\ v.n = n

\* C22: whenever the chunk list in the GenerationResult returned by
\* generateDocumentation is non-empty, the first chunk's startIndex is 0,
\* the last chunk's endIndex is actions.length - 1, and each chunk's
\* startIndex equals the previous chunk's endIndex + 1.
C22_ResultChunksContiguous ==
    (result.returned /\ result.chunks # <<>>) =>
        LET cs == result.chunks
        IN /\ isNumber(cs[1].startIndex, 0)
           /\ isNumber(cs[Len(cs)].endIndex, Len(actions) - 1)
           /\ \A k \in 1..(Len(cs) - 1) :
                 /\ cs[k].endIndex.t = "number"
                 /\ isNumber(cs[k + 1].startIndex, cs[k].endIndex.n + 1)

---------------------------------------------------------------------------
(* Claims about the pre-segmenter.                                         *)

\* C1: for a non-empty action list preChunkActions returns contiguous,
\* total-covering, non-overlapping chunks: the first starts at 0, the last
\* ends at actions.length - 1, every chunk has startIndex <= endIndex and
\* each chunk starts right after the previous one ends; for the empty list
\* it returns no chunks.
C1_Contiguous ==
    preChunks.called =>
        LET cs == preChunks.chunks
            n == Len(actions)
        IN IF n = 0
           THEN cs = <<>>
           ELSE /\ Len(cs) >= 1
                /\ cs[1].startIndex = 0
                /\ cs[Len(cs)].endIndex = n - 1
                /\ \A k \in 1..Len(cs) : cs[k].startIndex <= cs[k].endIndex
                /\ \A k \in 1..(Len(cs) - 1) :
                       cs[k + 1].startIndex = cs[k].endIndex + 1
                /\ \A i \in 0..(n - 1) :
                       Cardinality({k \in 1..Len(cs) :
                           cs[k].startIndex <= i /\ i <= cs[k].endIndex}) = 1

\* a list of three actions was cut into three chunks
C1_Witness ==
    /\ preChunks.called
    /\ Len(actions) = 3
    /\ Len(preChunks.chunks) = 3


---------------------------------------------------------------------------
(* Claims about the renderer's parser.                                     *)

\* the text h occurs in the line
containsText(line, h) == startsWith(line, h) \/ endsWith(line, h)

\* the text h occurs nowhere in the text
headingMissing(text, h) == \A j \in 1..Len(text) : ~containsText(text[j], h)

\* t is the text with the blank lines off both of its ends
isTrimOf(t, text) ==
    \E a \in 0..Len(text), b \in 0..Len(text) :
        /\ a + b <= Len(text)
        /\ t = SubSeq(text, a + 1, Len(text) - b)
        /\ \A j \in 1..a : text[j] = Blank
        /\ \A j \in (Len(text) - b + 1)..Len(text) : text[j] = Blank
        /\ t # <<>> => (t[1] # Blank /\ t[Len(t)] # Blank)

\* C11: parseGeneratorResponse never fails: for any response text it returns
\* the four fields; each of summary, instructions and knowHow whose heading
\* ("# Summary", "# Instructions", "# Know-How") is missing from the text is
\* the empty string, and rawMarkdown is the trimmed response.
C11_MissingHeadingsEmpty ==
    sections.called =>
        LET v == sections.value
        IN /\ DOMAIN v = {"summary", "instructions", "knowHow", "rawMarkdown"}
           /\ headingMissing(generatorResponse, H_Summary) => v.summary = <<>>
           /\ headingMissing(generatorResponse, H_Instructions) => v.instructions = <<>>
           /\ headingMissing(generatorResponse, H_KnowHow) => v.knowHow = <<>>
           /\ isTrimOf(v.rawMarkdown, generatorResponse)

\* a response with blank lines around it, a summary and a know-how section
\* and no instructions heading was parsed
C11_Witness ==
    /\ sections.called
    /\ sectionTexts = <<>>
    /\ Len(generatorResponse) = MaxResponseLines
    /\ generatorResponse[1] = Blank
    /\ headingMissing(generatorResponse, H_Instructions)
    /\ sections.value.summary # <<>>
    /\ sections.value.knowHow # <<>>
    /\ sections.value.instructions = <<>>

\* the three prose fields of the fixed empty result are what parsing its
\* own rawMarkdown returns
emptyResultRoundTrip ==
    LET output == createEmptyResult.output
        v == parseGeneratorResponse(output.rawMarkdown)
    IN /\ v.summary = output.summary
       /\ v.instructions = output.instructions
       /\ v.knowHow = output.knowHow

\* the parser returned the three section texts the document was built of,
\* up to surrounding whitespace
sectionsRoundTrip ==
    /\ sections.value.summary = trimLines(sectionTexts[1])
    /\ sections.value.instructions = trimLines(sectionTexts[2])
    /\ sections.value.knowHow = trimLines(sectionTexts[3])

\* C12 as stated: for any three section texts s, i, k, parsing the document
\* "# Summary" s "# Instructions" i "# Know-How" k (each heading on its own
\* line) returns s, i and k up to surrounding whitespace, and the fixed
\* empty result's prose fields equal what parsing its rawMarkdown returns.
C12_RoundTripAnyTexts ==
    /\ (sections.called /\ sectionTexts # <<>>) => sectionsRoundTrip
    /\ emptyResultRoundTrip

\* the summary text holds neither "# Instructions" nor "# Know-How", and
\* the instructions text does not hold "# Know-How"
laterHeadingsAbsent ==
    /\ headingMissing(sectionTexts[1], H_Instructions)
    /\ headingMissing(sectionTexts[1], H_KnowHow)
    /\ headingMissing(sectionTexts[2], H_KnowHow)

\* C12, amended: the round trip holds for section texts in which no later
\* section's heading occurs (s without "# Instructions" and "# Know-How", i
\* without "# Know-How"; k is arbitrary), and the fixed empty result's
\* prose fields equal what parsing its rawMarkdown returns.
C12_RoundTripHeadingFree ==
    /\ (sections.called /\ sectionTexts # <<>> /\ laterHeadingsAbsent)
           => sectionsRoundTrip
    /\ emptyResultRoundTrip

\* a document of three different section texts, the last one holding a
\* heading line, was parsed back into them
C12_Witness ==
    /\ sections.called
    /\ sectionTexts # <<>>
    /\ laterHeadingsAbsent
    /\ sectionTexts[1] = <<L_Body>>
    /\ sectionTexts[2] = <<L_Other>>
    /\ sectionTexts[3] = <<H_Instructions>>
    /\ sections.value.knowHow = <<H_Instructions>>


---------------------------------------------------------------------------
(* Claims about the stored task.                                           *)

\* C13: for every stored task that has an output, at every point of its
\* life (after the initial generation and after every clarification
\* regeneration by POST /tasks/:id/clarification or by the webhook),
\* output.summary, output.instructions and output.knowHow are the sections
\* sliced out of the current output.rawMarkdown.
C13_ViewsMatchRawMarkdown ==
    (task.status # "none" /\ task.output.defined) =>
        LET v == parseGeneratorResponse(task.output.rawMarkdown)
        IN /\ task.output.summary = v.summary
           /\ task.output.instructions = v.instructions
           /\ task.output.knowHow = v.knowHow


---------------------------------------------------------------------------
(* Claims about the metrics engine.                                        *)

metricsFields ==
    {"totalActions", "totalDurationMs", "longPauses", "backForthPatterns",
     "repeatedActions", "extractionActions", "urlChanges", "uniqueDomains"}

typeAt(i) == At(actions, i).type

urlAt(i) == At(actions, i).url

idleAt(i) == At(actions, i).idleTimeBefore

\* the positions of the action list
positions == 0..(Len(actions) - 1)

\* C14: calculateMetrics is total, and for the empty action list every
\* count is 0 and every list is empty, none absent; for a non-empty list
\* totalActions equals the list length.
C14_EmptyMetricsZero ==
    taskMetrics.called =>
        LET m == taskMetrics.metrics
        IN /\ DOMAIN m = metricsFields
           /\ Len(actions) = 0 =>
                 /\ m.totalActions = 0
                 /\ m.totalDurationMs = 0
                 /\ m.urlChanges = 0
                 /\ m.longPauses = <<>>
                 /\ m.backForthPatterns = <<>>
                 /\ m.repeatedActions = <<>>
                 /\ m.extractionActions = <<>>
                 /\ m.uniqueDomains = <<>>
           /\ Len(actions) # 0 => m.totalActions = Len(actions)

\* the metrics of the empty list were calculated
C14_Witness ==
    /\ taskMetrics.called
    /\ Len(actions) = 0
    /\ taskMetrics.metrics.totalActions = 0
    /\ taskMetrics.metrics.uniqueDomains = <<>>

\* positions a..b are a maximal contiguous run of one type
isMaximalRun(a, b) ==
    /\ a <= b
    /\ \A i \in a..b : typeAt(i) = typeAt(a)
    /\ a = 0 \/ typeAt(a - 1) # typeAt(a)
    /\ b = Len(actions) - 1 \/ typeAt(b + 1) # typeAt(a)

\* the maximal runs of length 3 or more
longRuns ==
    {r \in positions \X positions : isMaximalRun(r[1], r[2]) /\ r[2] - r[1] + 1 >= 3}

\* C15: repeated-action detection emits exactly one entry per maximal
\* contiguous run of actions with identical type and length >= 3, and
\* nothing else: the entry's type is the run's type, its count is the run
\* length and the number of its indices, its indices are the run's
\* consecutive positions; shorter runs give no entry, a long run is never
\* split, and targets play no role.
C15_OneEntryPerRun ==
    taskMetrics.called =>
        LET reps == taskMetrics.metrics.repeatedActions
        IN /\ Len(reps) = Cardinality(longRuns)
           /\ \A k \in 1..Len(reps) :
                 \E r \in longRuns :
                    /\ reps[k].type = typeAt(r[1])
                    /\ reps[k].count = r[2] - r[1] + 1
                    /\ Len(reps[k].indices) = reps[k].count
                    /\ \A j \in 1..Len(reps[k].indices) :
                           reps[k].indices[j] = r[1] + j - 1
           /\ \A r \in longRuns :
                 Cardinality({k \in 1..Len(reps) : reps[k].indices[1] = r[1]}) = 1

\* a run of five clicks on different targets, followed by an input, gave
\* one entry
C15_Witness ==
    /\ taskMetrics.called
    /\ Len(actions) = 6
    /\ typeAt(0) = "click"
    /\ typeAt(5) = "input"
    /\ At(actions, 0).text # At(actions, 1).text
    /\ taskMetrics.metrics.repeatedActions =
           <<[type |-> "click", count |-> 5, indices |-> <<0, 1, 2, 3, 4>>]>>

\* C16: longPauses holds an entry {index i, durationMs = idleTimeBefore}
\* for exactly the indices i whose idleTimeBefore is >= 10000 ms (10000 is
\* included, 9999 and an absent idleTimeBefore are not), in increasing
\* index order.
C16_LongPausesInclusive ==
    taskMetrics.called =>
        LET pauses == taskMetrics.metrics.longPauses
        IN /\ \A i \in positions :
                 (idleAt(i) # Undefined /\ idleAt(i) >= 10000)
                    <=> (\E k \in 1..Len(pauses) :
                            pauses[k] = [index |-> i, durationMs |-> idleAt(i)])
           /\ \A k \in 1..Len(pauses) : pauses[k].index \in positions
           /\ \A k \in 1..(Len(pauses) - 1) : pauses[k].index < pauses[k + 1].index

\* idle times 9999, 10000 and none gave the one entry for the 10000
C16_Witness ==
    /\ taskMetrics.called
    /\ Len(actions) = 3
    /\ idleAt(0) = 9999
    /\ idleAt(1) = 10000
    /\ idleAt(2) = Undefined
    /\ taskMetrics.metrics.longPauses = <<[index |-> 1, durationMs |-> 10000]>>

\* C17: for three actions with URLs A, B, A (A different from B) there is
\* exactly one back-and-forth pattern, with indices 0, 1, 2; and whenever
\* actions[i].url equals actions[i-2].url and differs from actions[i-1].url,
\* a pattern ending at index i is emitted whose indices include i-2, i-1, i.
C17_BackAndForth ==
    taskMetrics.called =>
        LET patterns == taskMetrics.metrics.backForthPatterns
        IN /\ (Len(actions) = 3 /\ urlAt(0) = urlAt(2) /\ urlAt(0) # urlAt(1))
                  => patterns = <<[indices |-> <<0, 1, 2>>]>>
           /\ \A i \in positions :
                 (i >= 2 /\ urlAt(i) = urlAt(i - 2) /\ urlAt(i) # urlAt(i - 1))
                    => \E k \in 1..Len(patterns) :
                          LET ix == patterns[k].indices
                          IN /\ ix[Len(ix)] = i
                             /\ {i - 2, i - 1, i} \subseteq {ix[j] : j \in 1..Len(ix)}

\* a list that goes A, B, A, B, A gave a pattern ending at each return
C17_Witness ==
    /\ taskMetrics.called
    /\ Len(actions) = 5
    /\ urlAt(0) = UrlAX /\ urlAt(1) = UrlB /\ urlAt(2) = UrlAX
    /\ urlAt(3) = UrlB /\ urlAt(4) = UrlAX
    /\ Len(taskMetrics.metrics.backForthPatterns) = 3

\* the positions whose URL differs from the URL of the action before
changePositions == {i \in positions : i >= 1 /\ urlAt(i) # urlAt(i - 1)}

\* C18: urlChanges equals the number of positions i >= 1 with actions[i].url
\* different from actions[i-1].url, so a list that stays on a single URL
\* (a list of one action included) has urlChanges = 0.
C18_UrlChangesAgainstPrevious ==
    taskMetrics.called =>
        taskMetrics.metrics.urlChanges = Cardinality(changePositions)

\* urlChanges of the first k actions
urlChangesUpTo(k) ==
    IF k = Len(actions)
    THEN taskMetrics.metrics.urlChanges
    ELSE calculateMetrics(SubSeq(actions, 1, k)).urlChanges

\* the hostnames of the parseable URLs of the list
hostnames ==
    {Hostname(u) : u \in {v \in {urlAt(i) : i \in positions} : UrlParses(v)}}

\* C19: uniqueDomains is exactly the set of hostnames of all parseable URLs
\* occurring anywhere in the action list, each hostname listed once; an
\* action whose URL is malformed contributes no hostname, raises no error,
\* and still counts toward urlChanges when its URL differs from the
\* previous one.
C19_UniqueDomains ==
    taskMetrics.called =>
        LET domains == taskMetrics.metrics.uniqueDomains
        IN /\ {domains[k] : k \in 1..Len(domains)} = hostnames
           /\ Len(domains) = Cardinality(hostnames)
           /\ \A i \in positions :
                 (i >= 1 /\ ~UrlParses(urlAt(i)) /\ urlAt(i) # urlAt(i - 1))
                    => urlChangesUpTo(i + 1) = urlChangesUpTo(i) + 1

\* two pages of one host around a malformed URL, then another host, gave
\* each hostname once
C19_Witness ==
    /\ taskMetrics.called
    /\ Len(actions) = 4
    /\ urlAt(0) = UrlAX /\ urlAt(1) = UrlBad /\ urlAt(2) = UrlAY /\ urlAt(3) = UrlB
    /\ taskMetrics.metrics.uniqueDomains = <<"a.example", "b.example">>
    /\ urlChangesUpTo(2) = urlChangesUpTo(1) + 1

---------------------------------------------------------------------------
(* Claims about configuration errors.                                      *)

\* C20: a missing API key of the configured provider is fatal at first use
\* and is not retried: complete fails after the first attempt that hits the
\* missing credential, and no attempt of a further model of the fallback
\* list follows it.
C20_ConfigErrorNotRetried ==
    \A k \in 1..Len(tried) :
        tried[k].reply = "missing_key" => (k = 1 /\ Len(tried) = 1 /\ pc = "failed")


---------------------------------------------------------------------------
(* Claims about the capture side.                                          *)

\* C21: the capture side delivers action batches in capture order: for any
\* two actions a and b of one recording with a captured before b, a is
\* never appended to the task's stored action list after b, for every
\* interleaving of interval flushes, the flush at stop, new captures and
\* flushes that fail and re-queue their batch.
C21_CaptureOrder ==
    \A p \in 1..Len(actions) : \A q \in (p + 1)..Len(actions) :
        actions[p].timestamp <= actions[q].timestamp

----------------------------------------------------------------------------
(* Claims about the rules of the pre-segmenter.                            *)

modeAt(i) == getActionMode(typeAt(i))

\* both URLs around the boundary before position i parse, to one hostname
sameHostname(i) ==
    /\ UrlParses(urlAt(i - 1))
    /\ UrlParses(urlAt(i))
    /\ Hostname(urlAt(i - 1)) = Hostname(urlAt(i))

\* the pause rule does not fire at position i
noPauseAt(i) == OrZero(idleAt(i)) < 15000

\* the pre-chunks that end at position i
chunksEndingAt(i) ==
    {k \in 1..Len(preChunks.chunks) : preChunks.chunks[k].endIndex = i}

\* a boundary labelled b was inserted before position i
boundaryBefore(i, b) ==
    LET cs == preChunks.chunks
    IN \E k \in 1..(Len(cs) - 1) :
          /\ cs[k].endIndex = i - 1
          /\ cs[k].boundary = b
          /\ cs[k + 1].startIndex = i

\* C23: for every index i >= 1 whose idleTimeBefore is >= 15000 ms (15000
\* included) a boundary is inserted before i and the chunk closed at i-1 is
\* labelled long_pause, whatever the URLs and modes of actions i-1 and i;
\* one chunk only ends at i-1.
C23_PauseRuleFirst ==
    preChunks.called =>
        \A i \in positions :
            (i >= 1 /\ OrZero(idleAt(i)) >= 15000) =>
                /\ boundaryBefore(i, "long_pause")
                /\ Cardinality(chunksEndingAt(i - 1)) = 1

\* a pause of 15000 ms between two hosts and two modes closed a long_pause
\* chunk, and a pause of 14999 ms on the same page closed none
C23_Witness ==
    /\ preChunks.called
    /\ Len(actions) = 3
    /\ idleAt(1) = 15000 /\ idleAt(2) = 14999
    /\ urlAt(0) = UrlAX /\ urlAt(1) = UrlB /\ urlAt(2) = UrlB
    /\ modeAt(0) # modeAt(1) /\ modeAt(1) = modeAt(2)
    /\ Len(preChunks.chunks) = 2
    /\ preChunks.chunks[1].boundary = "long_pause"
    /\ preChunks.chunks[1].endIndex = 0

\* C24: for every index i >= 1 with idleTimeBefore < 15000 and both URLs
\* parsing to the same hostname, a mode_change boundary is inserted before i
\* if and only if the mode of action i differs from the mode of action i-1,
\* whether the two URL strings are equal or not.
C24_ModeChangeOnSameHost ==
    preChunks.called =>
        \A i \in positions :
            (i >= 1 /\ noPauseAt(i) /\ sameHostname(i)) =>
                (boundaryBefore(i, "mode_change") <=> modeAt(i) # modeAt(i - 1))

\* C25: for every index i >= 1 with idleTimeBefore < 15000, a url_change
\* boundary is inserted before i whenever the two hostnames differ and
\* whenever either URL fails to parse, whether the two URL strings are
\* equal or not.
C25_UrlChangeOnOtherHost ==
    preChunks.called =>
        \A i \in positions :
            (i >= 1 /\ noPauseAt(i) /\ ~sameHostname(i)) =>
                boundaryBefore(i, "url_change")

\* the rule that fires at position i >= 1
ruleAt(i) == splitBoundary(At(actions, i), urlAt(i - 1), modeAt(i - 1))

\* the positions at which a rule fired
firedPositions == {i \in positions : i >= 1 /\ ruleAt(i) # "none"}

\* C26: for a non-empty list the last chunk is labelled 'start', every
\* earlier chunk carries the label of the rule that closed it (long_pause,
\* url_change or mode_change), and there is one chunk more than there are
\* indices at which a rule fired; with no rule firing the result is the
\* single chunk [0, n-1] labelled 'start'.
C26_BoundaryLabels ==
    (preChunks.called /\ Len(actions) > 0) =>
        LET cs == preChunks.chunks
        IN /\ Len(cs) = 1 + Cardinality(firedPositions)
           /\ cs[Len(cs)].boundary = "start"
           /\ \A k \in 1..(Len(cs) - 1) :
                 /\ cs[k].boundary \in {"long_pause", "url_change", "mode_change"}
                 /\ cs[k].boundary = ruleAt(cs[k].endIndex + 1)
           /\ firedPositions = {} =>
                 cs = <<[startIndex |-> 0, endIndex |-> Len(actions) - 1,
                         actions |-> actions, boundary |-> "start"]>>

\* three actions gave a long_pause chunk, a mode_change chunk and the final
\* chunk labelled 'start'
C26_Witness ==
    /\ preChunks.called
    /\ Len(actions) = 3
    /\ Len(preChunks.chunks) = 3
    /\ preChunks.chunks[1].boundary = "long_pause"
    /\ preChunks.chunks[2].boundary = "mode_change"
    /\ preChunks.chunks[3].boundary = "start"

----------------------------------------------------------------------------
(* Claims about the window of back-and-forth detection.                    *)

\* the earlier positions with the URL of position i that the history still
\* holds when i is examined, the entry pushed last left out
qualifying(i) ==
    {j \in positions : j >= i - 10 /\ j < i - 1 /\ urlAt(j) = urlAt(i)}

\* the patterns whose last index is i
patternsEndingAt(i) ==
    LET patterns == taskMetrics.metrics.backForthPatterns
    IN {k \in 1..Len(patterns) :
           patterns[k].indices[Len(patterns[k].indices)] = i}

\* C27: when the current URL has several qualifying earlier occurrences in
\* the window, the emitted pattern starts at the nearest (most recent) of
\* them, and at most one pattern is emitted per action.
C27_NearestOccurrence ==
    taskMetrics.called =>
        LET patterns == taskMetrics.metrics.backForthPatterns
        IN \A i \in positions :
              /\ Cardinality(patternsEndingAt(i)) <= 1
              /\ \A k \in patternsEndingAt(i) :
                    /\ patterns[k].indices[1] \in qualifying(i)
                    /\ \A j \in qualifying(i) : j <= patterns[k].indices[1]

\* C28: a revisit of a URL whose earlier occurrences all lie more than 10
\* actions back emits no pattern, and no pattern starts more than 10
\* positions before its last index (the history never holds more than the
\* 10 entries before the examined action).
C28_HistoryWindow ==
    taskMetrics.called =>
        LET patterns == taskMetrics.metrics.backForthPatterns
        IN /\ \A i \in positions :
                 (\A j \in 0..(i - 1) : urlAt(j) = urlAt(i) => i - j > 10)
                     => patternsEndingAt(i) = {}
           /\ \A k \in 1..Len(patterns) :
                 LET ix == patterns[k].indices
                 IN /\ ix[Len(ix)] - ix[1] <= 10
                    /\ Len(ix) <= 11

\* a page left at position 0 and visited again at position 11 gave no
\* pattern there, while the other page, visited at 1..10, gave a pattern
\* that ends at 10
C28_Witness ==
    /\ taskMetrics.called
    /\ Len(actions) = 12
    /\ urlAt(0) = UrlAX /\ urlAt(11) = UrlAX
    /\ \A j \in 1..10 : urlAt(j) = UrlB
    /\ patternsEndingAt(11) = {}
    /\ patternsEndingAt(10) # {}

----------------------------------------------------------------------------
(* Claims about the model list.                                            *)

\* the preferred model the environment configures for the provider in use
configuredModel ==
    IF config.provider = "claude" THEN env.CLAUDE_MODEL ELSE env.OPENAI_MODEL

\* the fixed fallback chain of the provider in use
providerChain ==
    IF config.provider = "claude"
    THEN CLAUDE_MODEL_FALLBACK_CHAIN
    ELSE OPENAI_MODEL_FALLBACK_CHAIN

\* where the model m stands in the provider's chain
chainPosition(m) == CHOOSE k \in 1..Len(providerChain) : providerChain[k] = m

\* C29: the model list used by complete is the configured preferred model
\* first (when one is configured), followed by the provider's fallback chain
\* in its original order with the preferred model removed; no model appears
\* twice; without a preferred model the list is the chain unchanged.
C29_ModelList ==
    LET models == config.models
        rest == Tail(models)
    IN /\ triedModels = SubSeq(models, 1, Len(tried))
       /\ \A j, k \in 1..Len(models) : j # k => models[j] # models[k]
       /\ configuredModel = Unset => models = providerChain
       /\ configuredModel # Unset =>
             /\ models[1] = configuredModel
             /\ {rest[k] : k \in 1..Len(rest)}
                   = {providerChain[k] : k \in 1..Len(providerChain)}
                        \ {configuredModel}
             /\ \A j, k \in 1..Len(rest) :
                   j < k => chainPosition(rest[j]) < chainPosition(rest[k])

\* with gpt-4-turbo preferred, complete went from it through gpt-4o and
\* gpt-4o-mini to gpt-4 and gpt-3.5-turbo
C29_Witness ==
    /\ env.OPENAI_MODEL = "gpt-4-turbo"
    /\ config.provider = "openai"
    /\ triedModels = <<"gpt-4-turbo", "gpt-4o", "gpt-4o-mini", "gpt-4", "gpt-3.5-turbo">>

----------------------------------------------------------------------------
(* Claims about the slicing of the renderer's response.                    *)

\* the heading of each returned section
sectionHeading ==
    [summary |-> H_Summary, instructions |-> H_Instructions, knowHow |-> H_KnowHow]

\* C30: each section is the text between its heading and the next of the
\* three headings (or the end of the text), whatever the order of the
\* headings in the response: no returned section contains the heading line
\* of another section.
C30_SectionsHoldNoOtherHeading ==
    sections.called =>
        \A f \in DOMAIN sectionHeading : \A g \in DOMAIN sectionHeading \ {f} :
            \A j \in 1..Len(sections.value[f]) :
                sections.value[f][j] # sectionHeading[g]

----------------------------------------------------------------------------
(* Claims about the end of a recording.                                    *)

\* C34: stopRecording sends the POST /tasks/:id/stop request only after
\* every captured action has been delivered: when the stop request is out,
\* the queue is empty, no flushActions call is still in flight, and the
\* task holds every captured action.
C34_StopAfterDelivery ==
    stopPc = "stopping" =>
        /\ state.actions = <<>>
        /\ \A f \in 1..Len(flushes) : flushes[f].outcome # "pending"
        /\ Len(actions) = state.actionCount

----------------------------------------------------------------------------
(* Claims about the task routes over the store.                            *)

\* the handlers of the requests to one route
handlersOf(route) == {h \in DOMAIN handlers : RouteRequests[h].route = route}

\* the handler has replied
hasReplied(h, kind) == handlers[h].pc = "done" /\ handlers[h].response.kind = kind

\* C31: a task's stored status only moves forward: once the stored status
\* is no longer 'recording' it never becomes 'recording' again, for every
\* interleaving of POST /:id/actions and POST /:id/stop requests.
C31_StatusNeverBackToRecording ==
    \A k \in 1..Len(statusLog) : \A m \in (k + 1)..Len(statusLog) :
        statusLog[k] # "recording" => statusLog[m] # "recording"

\* C32: generateDocumentation is started at most once for a task: of the
\* POST /:id/stop requests at most one passes the 'recording' check, all
\* others are rejected with the not-in-recording-state error.
C32_GeneratedAtMostOnce ==
    /\ Len(generations) <= 1
    /\ Cardinality({h \in handlersOf("stop") :
                       handlers[h].pc # "new" /\ ~hasReplied(h, "not_recording")}) <= 1

\* the action a is in the list
holdsAction(list, a) == \E k \in 1..Len(list) : list[k] = a

\* C33: no accepted action is lost: every action counted in 'received' of a
\* successful POST /:id/actions reply is in the stored task's action list
\* from then on, and in the list stop hands to generateDocumentation after
\* that reply.
C33_NoAcceptedActionLost ==
    \A h \in handlersOf("actions") :
        hasReplied(h, "ok") =>
            \A k \in 1..Len(RouteRequests[h].body) :
                LET a == RouteRequests[h].body[k]
                IN (a.type # Unset /\ a.timestamp # 0 /\ a.url # Unset)
                       => holdsAction(stored.actions, a)

\* the task the handler stored last
lastWritten(h) == handlers[h].written[Len(handlers[h].written)]

\* the fields POST /:id/stop sets from the result
resultFields == {"chunks", "metrics", "knowHowExtraction", "output"}

truthyActions(h) ==
    SelectSeq(RouteRequests[h].body,
              LAMBDA a : a.type # Unset /\ a.timestamp # 0 /\ a.url # Unset)

\* C36: POST /:id/actions changes a task only while it is recording: for
\* an unknown id it fails with 'Task not found', for a task it reads as not
\* recording with the not-in-recording-state error, and stores nothing in
\* both cases; on success exactly the actions with a truthy type, timestamp
\* and url are appended in request order, 'received' is their number and
\* 'total' the length of the new list.
C36_ActionsOnlyWhileRecording ==
    \A h \in handlersOf("actions") :
        handlers[h].pc = "done" =>
            LET r == handlers[h].response
                got == handlers[h].read
            IN /\ r.kind \in {"ok", "not_found", "not_recording"}
               /\ r.kind = "not_found" <=> RouteRequests[h].id # TaskId
               /\ r.kind = "not_recording" <=>
                     (got # NoTask /\ got.status # "recording")
               /\ r.kind # "ok" => handlers[h].written = <<>>
               /\ r.kind = "ok" =>
                     /\ handlers[h].written[1].actions
                           = got.actions \o truthyActions(h)
                     /\ handlers[h].written[1].status = "recording"
                     /\ r.received = Len(truthyActions(h))
                     /\ r.total = Len(got.actions) + r.received
                     /\ r.total = Len(lastWritten(h).actions)

\* a request with an action without url was stored without it, one request
\* came after stop and one asked for an unknown task
C36_Witness ==
    /\ hasReplied(2, "ok")
    /\ handlers[2].response.received = 2
    /\ handlers[2].response.total = 3
    /\ hasReplied(5, "not_found")
    /\ handlers[5].written = <<>>

----------------------------------------------------------------------------
(* Claims about the shape of the back-and-forth patterns.                  *)

\* C37: every back-and-forth pattern has indices that are the consecutive
\* integers p, p+1, ..., i with 2 <= i - p <= 10 and actions[p].url equal
\* to actions[i].url; at most one pattern ends at any index, and the
\* patterns are listed in increasing order of their last index.
C37_PatternShape ==
    taskMetrics.called =>
        LET patterns == taskMetrics.metrics.backForthPatterns
            last(k) == patterns[k].indices[Len(patterns[k].indices)]
        IN /\ \A k \in 1..Len(patterns) :
                 LET ix == patterns[k].indices
                     first == ix[1]
                 IN /\ first \in positions /\ last(k) \in positions
                    /\ ix = [j \in 1..(last(k) - first + 1) |-> first + j - 1]
                    /\ last(k) - first >= 2
                    /\ last(k) - first <= 10
                    /\ urlAt(first) = urlAt(last(k))
           /\ \A i \in positions : Cardinality(patternsEndingAt(i)) <= 1
           /\ \A k \in 1..(Len(patterns) - 1) : last(k) < last(k + 1)

\* a page left at position 0 and visited again at position 10 gave the
\* pattern 0..10, and the other page gave the pattern 1, 2, 3
C37_Witness ==
    /\ taskMetrics.called
    /\ Len(actions) = 11
    /\ urlAt(0) = UrlAX /\ urlAt(10) = UrlAX
    /\ \A j \in 1..9 : urlAt(j) = UrlB
    /\ \E k \in 1..Len(taskMetrics.metrics.backForthPatterns) :
          taskMetrics.metrics.backForthPatterns[k].indices = <<1, 2, 3>>
    /\ \E k \in 1..Len(taskMetrics.metrics.backForthPatterns) :
          taskMetrics.metrics.backForthPatterns[k].indices
              = <<0, 1, 2, 3, 4, 5, 6, 7, 8, 9, 10>>

\* C38: a pattern is emitted only when the user left a URL and came back:
\* in every pattern at least one index strictly between the first and the
\* last has a URL different from theirs, and a list that stays on one URL
\* yields no pattern.
C38_PatternLeavesUrl ==
    taskMetrics.called =>
        LET patterns == taskMetrics.metrics.backForthPatterns
        IN /\ \A k \in 1..Len(patterns) :
                 LET ix == patterns[k].indices
                 IN \E j \in 2..(Len(ix) - 1) : urlAt(ix[j]) # urlAt(ix[1])
           /\ (\A i \in positions : urlAt(i) = urlAt(0)) => patterns = <<>>

----------------------------------------------------------------------------
(* Claims about the actions of the result's chunks.                        *)

\* the chunk's indices are numbers inside the task's action list
indicesInRange(chunk) ==
    /\ chunk.startIndex.t = "number"
    /\ chunk.endIndex.t = "number"
    /\ 0 <= chunk.startIndex.n
    /\ chunk.startIndex.n <= chunk.endIndex.n
    /\ chunk.endIndex.n < Len(actions)

\* C39: every chunk of the returned GenerationResult carries a slice of the
\* task's action list, in order, and no action from elsewhere, whatever
\* indices the segmenter returned; when 0 <= startIndex <= endIndex <
\* actions.length it carries exactly the endIndex - startIndex + 1 actions
\* from startIndex to endIndex.
C39_ChunkActionsAreSlices ==
    result.returned =>
        \A k \in 1..Len(result.chunks) :
            LET chunk == result.chunks[k]
            IN /\ \E a \in 1..(Len(actions) + 1) : \E b \in 0..Len(actions) :
                     chunk.actions = SubSeq(actions, a, b)
               /\ indicesInRange(chunk) =>
                     /\ Len(chunk.actions)
                           = chunk.endIndex.n - chunk.startIndex.n + 1
                     /\ \A j \in 1..Len(chunk.actions) :
                           chunk.actions[j] = actions[chunk.startIndex.n + j]

\* the segmenter gave one chunk over both actions and one with indices
\* outside the list, which holds the last action
C39_Witness ==
    /\ result.returned
    /\ Len(actions) = 2
    /\ Len(result.chunks) = 2
    /\ isNumber(result.chunks[1].startIndex, 0)
    /\ isNumber(result.chunks[1].endIndex, 1)
    /\ result.chunks[1].actions = actions
    /\ isNumber(result.chunks[2].endIndex, 5)
    /\ result.chunks[2].actions = <<actions[2]>>

=============================================================================
